---- MODULE Spec2Model ----
(***************************************************************************)
(* TechSupport AI: the playbook engine (src/lib/playbooks/engine.ts), the   *)
(* guardrails (src/lib/ai/guardrails.ts) and the tier-1 / tier-2 agent      *)
(* turns (lib/ai/l1-agent, lib/ai/l2-agent), as state machines.             *)
(***************************************************************************)
EXTENDS Integers, Sequences, FiniteSets, TLC

(***************************************************************************)
(* Optional values.  A field that TypeScript declares with `?` is a set     *)
(* with at most one element: {} is `undefined`, {v} is the value v.         *)
(***************************************************************************)
Undef == {}

Some(v) == {v}

Val(o) == CHOOSE v \in o : TRUE

\* A local constant of the code, `const v = e; ... v ...`, is written
\* Val({ ... v ... : v \in Some(e) }): e is evaluated once, where it is bound.

\* JavaScript truthiness of an optional string / an optional number
TruthyStr(o) == o # {} /\ o # {""}

TruthyNum(o) == o # {} /\ o # {0}

(***************************************************************************)
(* PLAYBOOK ENGINE                                                          *)
(***************************************************************************)
VARIABLES
    playbook,   \* the Playbook the execution runs (argument of every call)
    state,      \* the PlaybookExecutionState, {} before createExecutionState
    result,     \* the PlaybookExecutionResult of the last executeStep call
    calls       \* number of executeStep calls made so far

pbVars == <<playbook, state, result, calls>>

(***************************************************************************)
(* GUARDRAILS: one evaluation of checkEscalationTriggers                    *)
(***************************************************************************)
VARIABLES
    escMessage,  \* the message argument
    escContext,  \* the context argument, {} when omitted
    escAcc,      \* the locals reasons and severity
    escPhase,    \* the statement the evaluation is at
    escIndex,    \* the index (from 1) of the keyword the loop is at
    escResult    \* the returned EscalationCheck, {} before the return

escVars == <<escMessage, escContext, escAcc, escPhase, escIndex, escResult>>

(***************************************************************************)
(* AGENTS: one turn of processL1Request or processL2Request                 *)
(***************************************************************************)
VARIABLES
    agTier,             \* "L1" (processL1Request) or "L2" (processL2Request)
    agContext,          \* the context argument
    agUserMessage,      \* the userMessage argument
    agPc,               \* the statement the turn is at
    agSafeUserMessage,  \* the local safeUserMessage
    agCheck,            \* the local escalationCheck, {} before it is computed
    agRagChunks,        \* ragSources.length
    agPlaybook,         \* whether a playbook was found
    agTrace,            \* the calls made to external services, in order
    agCompletion,       \* the completion the LLM returned, {} before
    agResponse,         \* the returned agent response, {} before the return
    agLog               \* the errors the turn caught and logged (console.error)

agVars == <<agTier, agContext, agUserMessage, agPc, agSafeUserMessage, agCheck,
            agRagChunks, agPlaybook, agTrace, agCompletion, agResponse, agLog>>

(***************************************************************************)
(* GUARDRAILS: redactSecrets applied to a text, and to its own output       *)
(***************************************************************************)
VARIABLES
    rdInput,   \* the text argument of the first call
    rdPhase,   \* "input", "redacted" (one call made) or "again" (two calls)
    rdFirst,   \* the RedactionResult of redactSecrets(rdInput), {} before
    rdSecond   \* the RedactionResult of redactSecrets(rdFirst.text), {} before

rdVars == <<rdInput, rdPhase, rdFirst, rdSecond>>

(***************************************************************************)
(* Retrieval: retrieveRelevantChunks and assembleContext                    *)
(* (knowledge-base/retrieval.ts)                                            *)
(***************************************************************************)
VARIABLES
    rtMatches,          \* the matches the vector index returns, in its order
    rtMinScore,         \* options.minScore, in hundredths
    rtMaxTokens,        \* the budget given to assembleContext
    rtPhase,            \* "idle", "query", "retrieved", "assembled"
    rtChunks,           \* the RetrievalResult[] retrieveRelevantChunks returned
    rtContext           \* the string assembleContext returned

rtVars == <<rtMatches, rtMinScore, rtMaxTokens, rtPhase, rtChunks, rtContext>>

(***************************************************************************)
(* Batch embeddings: generateEmbeddings (knowledge-base/embeddings.ts)      *)
(***************************************************************************)
VARIABLES
    emTexts,            \* the texts argument
    emOnProgress,       \* whether an onProgress callback was given
    emI,                \* the loop variable i (start of the next batch)
    emResults,          \* the local results array
    emCalls,            \* the provider calls made, in order
    emProgress,         \* the onProgress reports, in order
    emPhase,            \* "idle", "loop", "returned", "rejected"
    emReturn,           \* the returned array, {} before the return
    emRejection         \* the error the call rejected with, {} if none

emVars == <<emTexts, emOnProgress, emI, emResults, emCalls, emProgress, emPhase,
           emReturn, emRejection>>

(***************************************************************************)
(* Chunker: chunkText (knowledge-base/chunker.ts)                           *)
(***************************************************************************)
VARIABLES
    cnText,             \* the text argument
    cnOptions,          \* the options, defaults applied
    cnPhase,            \* "idle", "input", "chunked"
    cnChunks            \* the returned TextChunk[]

cnVars == <<cnText, cnOptions, cnPhase, cnChunks>>

(***************************************************************************)
(* Support desk: the case store and the request handlers that write a      *)
(* case's status (cases/[id] PATCH, cases/[id]/escalate POST, twilio/sms    *)
(* POST) and the voice webhook (twilio/voice POST)                          *)
(***************************************************************************)
VARIABLES
    dkCases,            \* the stored cases, by id: status and currentLevel
    dkL3Queue,          \* the ids of the cases added to the L3 queue
    dkReq               \* the request each slot is handling, and its position

dkVars == <<dkCases, dkL3Queue, dkReq>>

(***************************************************************************)
(* VisionScreen sessions: the session store of lib/visionscreen/session.ts *)
(* and the request handlers that write it (visionscreen/session POST,      *)
(* visionscreen/[token] PATCH, cleanupExpiredSessions)                     *)
(***************************************************************************)
VARIABLES
    vsSessions,         \* the stored sessions, by document id
    vsNow,              \* the clock, in minutes
    vsTimeline,         \* the timeline events added, by session and type
    vsReq               \* the request each slot is handling, and its position

vsVars == <<vsSessions, vsNow, vsTimeline, vsReq>>

(***************************************************************************)
(* Several cases running one registered playbook: the registry of          *)
(* engine.ts, the objects the execution states refer to, and the           *)
(* executeStep calls of the cases in the order they are made               *)
(***************************************************************************)
VARIABLES
    mcRegistry,         \* playbookRegistry: the registered playbooks, by id
    mcHeap,             \* the mutable objects (maps and arrays), by reference
    mcState,            \* the execution state object of each case
    mcCalls             \* the executeStep calls made so far: <<case, stepOutcome>>

mcVars == <<mcRegistry, mcHeap, mcState, mcCalls>>

(***************************************************************************)
(* Playbook lookup: the registry of engine.ts and findPlaybooks            *)
(***************************************************************************)
VARIABLES
    fdRegistry,         \* playbookRegistry: the registered playbooks, in insertion order
    fdCriteria,         \* the criteria of the findPlaybooks call
    fdPhase,            \* "idle", "returned" or "threw"
    fdFound             \* the ids of the playbooks the call returned, in order

fdVars == <<fdRegistry, fdCriteria, fdPhase, fdFound>>

(***************************************************************************)
(* Context with source citations (retrieval.ts assembleContextWithSources) *)
(***************************************************************************)
VARIABLES
    ctChunks,           \* the chunks given to the call
    ctMaxTokens,        \* its token budget
    ctPhase,            \* "call" or "returned"
    ctContext,          \* the context string it returned
    ctSources           \* the sources list it returned

ctVars == <<ctChunks, ctMaxTokens, ctPhase, ctContext, ctSources>>

(***************************************************************************)
(* L3 queue: the l3_queue and l3_agents collections of lib/l3/queue.ts and *)
(* the request handlers that write them (l3/queue POST, l3/resolve POST)   *)
(***************************************************************************)
VARIABLES
    lqItems,            \* the queue items, by document id
    lqAgents,           \* the L3 agents, by id
    lqResolvedCases,    \* the queue items whose case the resolve route marked resolved
    lqReq               \* the request each slot is handling, and its position

lqVars == <<lqItems, lqAgents, lqResolvedCases, lqReq>>

vars == <<pbVars, escVars, agVars, rdVars, rtVars, emVars, cnVars, dkVars,
          vsVars, mcVars, fdVars, ctVars, lqVars>>

\* no playbook execution runs
IdlePlaybook ==
    /\ playbook = [metadata |-> {}, steps |-> <<>>]
    /\ state = {}
    /\ result = {}
    /\ calls = 0

\* no escalation check is being evaluated
IdleEscalation ==
    /\ escMessage = <<>>
    /\ escContext = {}
    /\ escAcc = {}
    /\ escPhase = "idle"
    /\ escIndex = 0
    /\ escResult = {}

\* no agent turn runs
IdleAgent ==
    /\ agTier = "L1"
    /\ agContext = {}
    /\ agUserMessage = <<>>
    /\ agPc = "idle"
    /\ agSafeUserMessage = <<>>
    /\ agCheck = {}
    /\ agRagChunks = 0
    /\ agPlaybook = FALSE
    /\ agTrace = <<>>
    /\ agCompletion = {}
    /\ agResponse = {}
    /\ agLog = <<>>

\* no redaction is being made
IdleRedaction ==
    /\ rdInput = <<>>
    /\ rdPhase = "idle"
    /\ rdFirst = {}
    /\ rdSecond = {}

\* no retrieval is being made
IdleRetrieval ==
    /\ rtMatches = <<>>
    /\ rtMinScore = 0
    /\ rtMaxTokens = 0
    /\ rtPhase = "idle"
    /\ rtChunks = <<>>
    /\ rtContext = <<>>

\* no batch embedding is being made
IdleEmbeddings ==
    /\ emTexts = <<>>
    /\ emOnProgress = FALSE
    /\ emI = 0
    /\ emResults = <<>>
    /\ emCalls = <<>>
    /\ emProgress = <<>>
    /\ emPhase = "idle"
    /\ emReturn = {}
    /\ emRejection = {}

\* no text is being chunked
IdleChunker ==
    /\ cnText = <<>>
    /\ cnOptions = {}
    /\ cnPhase = "idle"
    /\ cnChunks = <<>>

\* no request has been received
IdleDesk ==
    /\ dkCases = <<>>
    /\ dkL3Queue = <<>>
    /\ dkReq = <<>>

\* no session request has been received
IdleVision ==
    /\ vsSessions = <<>>
    /\ vsNow = 0
    /\ vsTimeline = {}
    /\ vsReq = <<>>

\* no playbook is registered
IdleCases ==
    /\ mcRegistry = <<>>
    /\ mcHeap = <<>>
    /\ mcState = <<>>
    /\ mcCalls = <<>>

\* no lookup is being made
IdleFind ==
    /\ fdRegistry = <<>>
    /\ fdCriteria = {}
    /\ fdPhase = "idle"
    /\ fdFound = <<>>

\* no context with sources is being assembled
IdleCitations ==
    /\ ctChunks = <<>>
    /\ ctMaxTokens = 0
    /\ ctPhase = "idle"
    /\ ctContext = <<>>
    /\ ctSources = <<>>

\* no queue request has been received
IdleQueue ==
    /\ lqItems = <<>>
    /\ lqAgents = <<>>
    /\ lqResolvedCases = {}
    /\ lqReq = <<>>

\* number of executeStep calls explored per execution
MaxCalls == 5

\* PlaybookStep (types.ts): the fields the engine reads
Step(id, title, instruction, nos, nof, eof, max) ==
    [id |-> id, title |-> title, instruction |-> instruction,
     nextOnSuccess |-> nos, nextOnFailure |-> nof,
     escalateOnFailure |-> eof, maxAttempts |-> max]

GoodMetadata == Some([id |-> "pb", name |-> "Playbook", version |-> "1"])

Playbook(metadata, steps) == [metadata |-> metadata, steps |-> steps]

\* step references and attempt limits the explored playbooks draw from
StepRefs == {Undef, Some("s1"), Some("s2")}

AttemptLimits == {Undef, Some(0), Some(1), Some(2)}

EscalateFlags == {Undef, Some(TRUE), Some(FALSE)}

\* first steps: every combination of the fields executeStep branches on
FirstSteps ==
    { Step("s1", "Title 1", "Do 1", nos, nof, eof, max) :
        nos \in StepRefs, nof \in StepRefs,
        eof \in EscalateFlags, max \in AttemptLimits }

\* second steps: may loop back to the first step
SecondSteps ==
    { Step("s2", "Title 2", "Do 2", nos, Undef, eof, max) :
        nos \in {Undef, Some("s1")},
        eof \in {Undef, Some(FALSE)}, max \in {Undef, Some(1)} }

\* playbooks of one or two well-formed steps (a one-step playbook that
\* refers to s2 has a dangling reference)
ShapedPlaybooks ==
    { Playbook(GoodMetadata, <<a>>) : a \in FirstSteps }
    \cup { Playbook(GoodMetadata, <<a, b>>) : a \in FirstSteps, b \in SecondSteps }

\* playbooks with one structural defect each
DefectivePlaybooks ==
    LET ok1 == Step("s1", "Title 1", "Do 1", Some("s2"), Undef, Undef, Undef)
        ok2 == Step("s2", "Title 2", "Do 2", Undef, Undef, Undef, Some(1))
    IN  { Playbook(GoodMetadata, <<>>),
          Playbook(Undef, <<ok1, ok2>>),
          Playbook(Some([id |-> "", name |-> "Playbook", version |-> "1"]), <<ok1, ok2>>),
          Playbook(Some([id |-> "pb", name |-> "", version |-> ""]), <<ok1, ok2>>),
          Playbook(GoodMetadata, <<[ok1 EXCEPT !.id = ""], ok2>>),
          Playbook(GoodMetadata, <<ok1, [ok2 EXCEPT !.id = "s1"]>>),
          Playbook(GoodMetadata, <<[ok1 EXCEPT !.title = ""], ok2>>),
          Playbook(GoodMetadata, <<ok1, [ok2 EXCEPT !.instruction = ""]>>),
          Playbook(GoodMetadata, <<ok1, [ok2 EXCEPT !.nextOnSuccess = Some("s9")]>>),
          Playbook(GoodMetadata, <<ok1, [ok2 EXCEPT !.nextOnFailure = Some("s9")]>>) }

Playbooks == ShapedPlaybooks \cup DefectivePlaybooks

\* keys stepAttempts can get
StepKeys == {"", "s1", "s2", "s9"}

Err(path, index, message) == [path |-> path, index |-> index, message |-> message]

\* engine.ts 104-117: metadata errors
MetadataErrors(pb) ==
    IF pb.metadata = Undef
    THEN <<Err("metadata", 0, "Metadata is required")>>
    ELSE (IF Val(pb.metadata).id = ""
          THEN <<Err("metadata.id", 0, "Playbook ID is required")>> ELSE <<>>)
         \o (IF Val(pb.metadata).name = ""
             THEN <<Err("metadata.name", 0, "Playbook name is required")>> ELSE <<>>)

\* engine.ts 129-143: the errors of step i; stepIds holds the truthy ids of
\* the steps before it
StepErrors(steps, i) ==
    LET step == steps[i]
        stepIds == { steps[j].id : j \in 1..(i - 1) } \ {""}
    IN  (IF step.id = ""
         THEN <<Err("steps[].id", i, "Step ID is required")>>
         ELSE IF step.id \in stepIds
              THEN <<Err("steps[].id", i, "Duplicate step ID")>>
              ELSE <<>>)
        \o (IF step.title = ""
            THEN <<Err("steps[].title", i, "Step title is required")>> ELSE <<>>)
        \o (IF step.instruction = ""
            THEN <<Err("steps[].instruction", i, "Step instruction is required")>>
            ELSE <<>>)

RECURSIVE AllStepErrors(_, _)
AllStepErrors(steps, i) ==
    IF i > Len(steps) THEN <<>>
    ELSE StepErrors(steps, i) \o AllStepErrors(steps, i + 1)

\* engine.ts 146-147: the ids some step refers to
ReferencedIds(steps) ==
    { Val(steps[i].nextOnSuccess) : i \in { j \in 1..Len(steps) : TruthyStr(steps[j].nextOnSuccess) } }
    \cup
    { Val(steps[i].nextOnFailure) : i \in { j \in 1..Len(steps) : TruthyStr(steps[j].nextOnFailure) } }

NoReferenceErrors(refs, stepIds) == <<>>

\* engine.ts 151-159: one error per referenced id that no step declares
RECURSIVE ReferenceErrors(_, _)
ReferenceErrors(refs, stepIds) ==
    IF refs = {} THEN <<>>
    ELSE LET refId == CHOOSE r \in refs : TRUE
         IN  (IF refId \notin stepIds
              THEN <<Err("steps", 0, "Referenced step ID does not exist")>>
              ELSE <<>>)
             \o ReferenceErrors(refs \ {refId}, stepIds)

\* engine.ts 100-178
validatePlaybook(pb) ==
    LET stepErrors ==
            IF Len(pb.steps) = 0
            THEN <<Err("steps", 0, "At least one step is required")>>
            ELSE AllStepErrors(pb.steps, 1)
                 \o ReferenceErrors(ReferencedIds(pb.steps),
                                    { pb.steps[i].id : i \in 1..Len(pb.steps) } \ {""})
        errors == MetadataErrors(pb) \o stepErrors
    IN  [valid |-> Len(errors) = 0, errors |-> errors]

\* engine.ts 183-197 (playbook.metadata.id throws on a playbook without
\* metadata: CreateExecutionState below)
createExecutionState(pb) ==
    [playbookId |-> Val(pb.metadata).id,
     currentStepId |-> IF Len(pb.steps) > 0 THEN pb.steps[1].id ELSE "",
     stepAttempts |-> [k \in StepKeys |-> 0],
     completedSteps |-> <<>>,
     failedSteps |-> <<>>,
     outcome |-> "in_progress"]

\* engine.ts 202-207: Array.find, the first step with that id, else undefined
getCurrentStep(pb, st) ==
    LET found == { i \in 1..Len(pb.steps) : pb.steps[i].id = st.currentStepId }
    IN  IF found = {} THEN Undef
        ELSE Some(pb.steps[CHOOSE i \in found : \A j \in found : i <= j])

MaxAttemptsOffByOne(step) ==
    IF TruthyNum(step.maxAttempts) THEN Val(step.maxAttempts) - 1 ELSE 3

\* engine.ts 237: step.maxAttempts || 3
MaxAttemptsOf(step) ==
    IF TruthyNum(step.maxAttempts) THEN Val(step.maxAttempts) ELSE 3

EscalateAlways(step) == TRUE

\* engine.ts 247: step.escalateOnFailure ?? true
EscalateOnFailureOf(step) ==
    IF step.escalateOnFailure = Undef THEN TRUE ELSE Val(step.escalateOnFailure)

Result(success, stepId, stepTitle, outcome, message, nextStepId, shouldEscalate, reason) ==
    [success |-> success, stepId |-> stepId, stepTitle |-> stepTitle,
     outcome |-> outcome, message |-> message, nextStepId |-> nextStepId,
     shouldEscalate |-> shouldEscalate, escalationReason |-> reason]

NoResult == Result(FALSE, "", "", "none", "", Undef, FALSE, Undef)

StepNotFoundSilent(st) ==
    Result(FALSE, st.currentStepId, "Unknown", "failure", "Step not found", Undef,
           FALSE, Undef)

\* engine.ts 219-229
StepNotFound(st) ==
    Result(FALSE, st.currentStepId, "Unknown", "failure", "Step not found", Undef,
           TRUE, Some("Playbook step not found"))

SuccessNeverResolves(st, step) ==
    [st EXCEPT !.completedSteps = Append(@, step.id),
               !.currentStepId = IF TruthyStr(step.nextOnSuccess)
                                 THEN Val(step.nextOnSuccess) ELSE @]

\* engine.ts 252-262: the state after a success
AfterSuccess(st, step) ==
    [st EXCEPT !.completedSteps = Append(@, step.id),
               !.currentStepId = IF TruthyStr(step.nextOnSuccess)
                                 THEN Val(step.nextOnSuccess) ELSE @,
               !.outcome = IF TruthyStr(step.nextOnSuccess) THEN @ ELSE "resolved"]

\* engine.ts 275-279: the state after a failure with attempts left
AfterFailure(st, step) ==
    [st EXCEPT !.currentStepId = IF TruthyStr(step.nextOnFailure)
                                 THEN Val(step.nextOnFailure) ELSE @]

\* engine.ts 212-291: the state executeStep leaves and the result it returns
executeStep(pb, st, stepOutcome) ==
    LET found == getCurrentStep(pb, st) IN
    IF found = Undef
    THEN [state |-> st, result |-> StepNotFound(st)]
    ELSE
    LET step == Val(found)
        attempts == st.stepAttempts[step.id] + 1
        counted == [st EXCEPT !.stepAttempts[step.id] = attempts]
        maxAttempts == MaxAttemptsOf(step)
    IN  IF attempts > maxAttempts /\ stepOutcome = "failure"
        THEN [state |-> [counted EXCEPT !.failedSteps = Append(@, step.id)],
              result |-> Result(FALSE, step.id, step.title, "failure",
                                "Step failed after max attempts", Undef,
                                EscalateOnFailureOf(step),
                                Some("Max attempts exceeded for step"))]
        ELSE IF stepOutcome = "success"
        THEN [state |-> AfterSuccess(counted, step),
              result |-> Result(TRUE, step.id, step.title, "success",
                                "Step completed successfully", step.nextOnSuccess,
                                FALSE, Undef)]
        ELSE [state |-> AfterFailure(counted, step),
              result |-> Result(FALSE, step.id, step.title, "failure",
                                "Step did not complete as expected",
                                step.nextOnFailure, FALSE, Undef)]

\* engine.ts 296-298
isPlaybookComplete(st) == st.outcome = "resolved" \/ st.outcome = "escalated"

InitPlaybook ==
    /\ playbook \in Playbooks
    /\ state = Undef
    /\ result = NoResult
    /\ calls = 0

\* a caller creates the execution state of its case (engine.ts 183-197);
\* without metadata the property read throws and no state exists
CreateExecutionState ==
    /\ state = Undef
    /\ playbook.metadata # Undef
    /\ state' = Some(createExecutionState(playbook))
    /\ UNCHANGED <<playbook, result, calls>>

\* one executeStep call (engine.ts 212-291)
ExecuteStep(stepOutcome) ==
    /\ state # Undef
    /\ calls < MaxCalls
    /\ LET r == executeStep(playbook, Val(state), stepOutcome)
       IN  /\ state' = Some(r.state)
           /\ result' = r.result
    /\ calls' = calls + 1
    /\ UNCHANGED playbook

NextPlaybook ==
    \/ (CreateExecutionState /\ UNCHANGED <<escVars, agVars, rdVars, rtVars, emVars, cnVars, dkVars, vsVars, mcVars, fdVars, ctVars, lqVars>>)
    \/ \E stepOutcome \in {"success", "failure"} :
          ExecuteStep(stepOutcome) /\ UNCHANGED <<escVars, agVars, rdVars, rtVars, emVars, cnVars, dkVars, vsVars, mcVars, fdVars, ctVars, lqVars>>

\* the other components stay idle
PlaybookInit ==
    InitPlaybook /\ IdleEscalation /\ IdleAgent /\ IdleRedaction /\
    IdleRetrieval /\ IdleEmbeddings /\ IdleChunker /\ IdleDesk /\
    IdleVision /\ IdleCases /\ IdleFind /\ IdleCitations /\ IdleQueue

SpecPlaybook == PlaybookInit /\ [][NextPlaybook]_vars

(***************************************************************************)
(* Properties of the playbook engine                                        *)
(***************************************************************************)
\* the last executeStep call found its step (it did not take the
\* step-not-found branch)
LastCallRanStep == calls > 0 /\ result.stepTitle # "Unknown"

\* the step the last call executed
LastStep == Val(getCurrentStep(playbook, [currentStepId |-> result.stepId]))

\* the attempt count of that step after the call's increment
LastAttempts == Val(state).stepAttempts[result.stepId]

\* the last call was a failure beyond the limit `limit` of its step
FailedBeyond(limit) ==
    /\ LastCallRanStep
    /\ result.outcome = "failure"
    /\ LastAttempts > limit

\* what C1 promises for the last call
RecordedAndEscalated ==
    /\ \E i \in 1..Len(Val(state).failedSteps) : Val(state).failedSteps[i] = result.stepId
    /\ result.shouldEscalate = (LastStep.escalateOnFailure # Some(FALSE))

\* C1 as stated: a failure whose attempt count exceeds the step's declared
\* maxAttempts (3 only when maxAttempts is unset) records the step in
\* failedSteps and returns shouldEscalate = true, or false when the step
\* declares escalateOnFailure = false.
C1_AsStated ==
    (LastCallRanStep /\
     FailedBeyond(IF LastStep.maxAttempts = Undef THEN 3 ELSE Val(LastStep.maxAttempts)))
        => RecordedAndEscalated

\* C1 amended: the same, with the limit being 3 when maxAttempts is unset
\* or 0 (the code reads `step.maxAttempts || 3`).
C1_MaxAttemptsEscalation ==
    (LastCallRanStep /\
     FailedBeyond(IF LastStep.maxAttempts \in {Undef, Some(0)} THEN 3
                  ELSE Val(LastStep.maxAttempts)))
        => RecordedAndEscalated

\* C1 witness: a failure beyond an explicit limit of 2 on a step that
\* declares escalateOnFailure = false, recorded but not escalated
C1_Witness ==
    /\ LastCallRanStep
    /\ LastStep.maxAttempts = Some(2)
    /\ LastStep.escalateOnFailure = Some(FALSE)
    /\ FailedBeyond(2)
    /\ ~result.shouldEscalate
    /\ Len(Val(state).failedSteps) > 0

\* C2: a success on a step without nextOnSuccess sets outcome = resolved,
\* whatever the attempt count of the step.
C2_SuccessWithoutNextResolves ==
    (LastCallRanStep /\ result.outcome = "success" /\ LastStep.nextOnSuccess = Undef)
        => Val(state).outcome = "resolved"

\* C2 witness: such a success on a step whose attempts already exceed its limit
C2_Witness ==
    /\ LastCallRanStep
    /\ result.outcome = "success"
    /\ LastStep.nextOnSuccess = Undef
    /\ LastAttempts > MaxAttemptsOf(LastStep)
    /\ Val(state).outcome = "resolved"

\* a fresh execution that has seen only failures of its first step, which
\* has no nextOnFailure and leaves escalateOnFailure unset
OnlyFailuresOfFirstStep ==
    /\ state # Undef
    /\ calls > 0
    /\ Len(playbook.steps) > 0
    /\ playbook.steps[1].nextOnFailure = Undef
    /\ playbook.steps[1].escalateOnFailure = Undef
    /\ Val(state).completedSteps = <<>>

\* after k consecutive failures the call escalated iff k > n, the execution
\* is still on the step, and the step is in failedSteps once k > n
CountsTo(n) ==
    LET st == Val(state)
        id == playbook.steps[1].id
    IN  /\ st.stepAttempts[id] = calls
        /\ st.currentStepId = id
        /\ result.shouldEscalate = (calls > n)
        /\ (calls > n) = (\E i \in 1..Len(st.failedSteps) : st.failedSteps[i] = id)

\* C3 as stated: for a step with maxAttempts = N, the first N consecutive
\* failures return shouldEscalate = false and stay on the step, and the
\* (N+1)-th returns shouldEscalate = true with the step in failedSteps.
C3_AsStated ==
    (OnlyFailuresOfFirstStep /\ playbook.steps[1].maxAttempts # Undef)
        => CountsTo(Val(playbook.steps[1].maxAttempts))

\* C3 amended: the same for maxAttempts = N >= 1; a step with maxAttempts
\* unset or 0 counts as N = 3.
C3_AttemptCounting ==
    OnlyFailuresOfFirstStep
        => CountsTo(IF playbook.steps[1].maxAttempts \in {Undef, Some(0)} THEN 3
                    ELSE Val(playbook.steps[1].maxAttempts))

\* C3 witness: the spec scenario, maxAttempts = 2 and three failures in a row
C3_Witness ==
    /\ OnlyFailuresOfFirstStep
    /\ playbook.steps[1].maxAttempts = Some(2)
    /\ calls = 3
    /\ result.shouldEscalate
    /\ Val(state).failedSteps = <<playbook.steps[1].id>>

\* C4: in an execution of a playbook that validatePlaybook accepts,
\* currentStepId always names a declared step and no call takes the
\* step-not-found branch.
C4_ValidPlaybookNeverDangles ==
    (validatePlaybook(playbook).valid /\ state # Undef)
        => /\ getCurrentStep(playbook, Val(state)) # Undef
           /\ result.stepTitle # "Unknown"

\* C4 witness: a valid playbook whose execution has moved to its second step
\* and back to the first
C4_Witness ==
    /\ validatePlaybook(playbook).valid
    /\ state # Undef
    /\ Len(Val(state).completedSteps) >= 2
    /\ Val(state).completedSteps[1] = "s1"
    /\ Val(state).completedSteps[2] = "s2"
    /\ Val(state).currentStepId = "s1"

\* C5: a call made while currentStepId names no step of the playbook
\* returns shouldEscalate = true with the reason "step not found".
C5_UnknownStepFailsClosed ==
    [][(/\ state # Undef
        /\ getCurrentStep(playbook, Val(state)) = Undef
        /\ calls' = calls + 1)
       => (/\ result'.shouldEscalate
           /\ result'.escalationReason = Some("Playbook step not found")
           /\ result'.message = "Step not found")]_vars

\* C5 witness: a call on a dangling step reference has returned
C5_Witness ==
    /\ state # Undef
    /\ calls > 0
    /\ Val(state).currentStepId = "s9"
    /\ result.stepId = "s9"
    /\ result.shouldEscalate

(***************************************************************************)
(* STRINGS                                                                  *)
(* A string is the sequence of its characters (one-character strings), so   *)
(* that toLowerCase, includes, split and the regular expressions of the     *)
(* guardrails are computed on the text itself.                              *)
(***************************************************************************)
UpperCaseLetters == <<"A", "B", "C", "D", "E", "F", "G", "H", "I", "J", "K", "L", "M",
                      "N", "O", "P", "Q", "R", "S", "T", "U", "V", "W", "X", "Y", "Z">>

LowerCaseLetters == <<"a", "b", "c", "d", "e", "f", "g", "h", "i", "j", "k", "l", "m",
                      "n", "o", "p", "q", "r", "s", "t", "u", "v", "w", "x", "y", "z">>

\* String.prototype.toLowerCase, one character
LowerChar(c) ==
    IF \E i \in 1..26 : UpperCaseLetters[i] = c
    THEN LowerCaseLetters[CHOOSE i \in 1..26 : UpperCaseLetters[i] = c]
    ELSE c

\* String.prototype.toLowerCase
ToLowerCase(s) == [i \in 1..Len(s) |-> LowerChar(s[i])]

\* sub occurs in s at the 0-based index i
OccursAt(s, sub, i) ==
    /\ i >= 0
    /\ i + Len(sub) <= Len(s)
    /\ \A j \in 1..Len(sub) : s[i + j] = sub[j]

\* String.prototype.includes
Includes(s, sub) == \E i \in 0..(Len(s) - Len(sub)) : OccursAt(s, sub, i)

\* Array.prototype.join(' ') of a list of strings
RECURSIVE JoinWords(_)
JoinWords(words) ==
    IF Len(words) = 0 THEN <<>>
    ELSE IF Len(words) = 1 THEN words[1]
    ELSE words[1] \o <<" ">> \o JoinWords(Tail(words))

(***************************************************************************)
(* GUARDRAILS: escalation triggers (guardrails.ts 41-63, 117-173)           *)
(***************************************************************************)

\* guardrails.ts 41-63
ESCALATION_KEYWORDS ==
    << <<"l", "a", "w", "s", "u", "i", "t">>,
       <<"l", "e", "g", "a", "l", " ", "a", "c", "t", "i", "o", "n">>,
       <<"a", "t", "t", "o", "r", "n", "e", "y">>,
       <<"l", "a", "w", "y", "e", "r">>,
       <<"s", "u", "e">>,
       <<"c", "o", "u", "r", "t">>,
       <<"c", "o", "m", "p", "l", "i", "a", "n", "c", "e">>,
       <<"r", "e", "g", "u", "l", "a", "t", "i", "o", "n">>,
       <<"g", "d", "p", "r">>,
       <<"h", "i", "p", "a", "a">>,
       <<"p", "c", "i">>,
       <<"s", "o", "x">>,
       <<"b", "r", "e", "a", "c", "h">>,
       <<"h", "a", "c", "k">>,
       <<"c", "o", "m", "p", "r", "o", "m", "i", "s", "e", "d">>,
       <<"u", "n", "a", "u", "t", "h", "o", "r", "i", "z", "e", "d", " ", "a", "c", "c", "e", "s", "s">>,
       <<"d", "a", "t", "a", " ", "l", "e", "a", "k">>,
       <<"r", "a", "n", "s", "o", "m", "w", "a", "r", "e">>,
       <<"m", "a", "l", "w", "a", "r", "e">>,
       <<"p", "h", "i", "s", "h", "i", "n", "g">>,
       <<"s", "e", "c", "u", "r", "i", "t", "y", " ", "i", "n", "c", "i", "d", "e", "n", "t">>,
       <<"f", "r", "a", "u", "d">>,
       <<"c", "h", "a", "r", "g", "e", " ", "b", "a", "c", "k">>,
       <<"c", "h", "a", "r", "g", "e", "b", "a", "c", "k">>,
       <<"d", "i", "s", "p", "u", "t", "e", " ", "c", "h", "a", "r", "g", "e">>,
       <<"u", "n", "a", "u", "t", "h", "o", "r", "i", "z", "e", "d", " ", "c", "h", "a", "r", "g", "e">>,
       <<"r", "e", "f", "u", "n", "d", " ", "d", "e", "m", "a", "n", "d">>,
       <<"c", "a", "n", "c", "e", "l", " ", "s", "u", "b", "s", "c", "r", "i", "p", "t", "i", "o", "n">>,
       <<"b", "i", "l", "l", "i", "n", "g", " ", "e", "r", "r", "o", "r">>,
       <<"s", "p", "e", "a", "k", " ", "t", "o", " ", "m", "a", "n", "a", "g", "e", "r">>,
       <<"s", "u", "p", "e", "r", "v", "i", "s", "o", "r">>,
       <<"e", "s", "c", "a", "l", "a", "t", "e">>,
       <<"u", "n", "a", "c", "c", "e", "p", "t", "a", "b", "l", "e">>,
       <<"t", "e", "r", "r", "i", "b", "l", "e", " ", "s", "e", "r", "v", "i", "c", "e">>,
       <<"w", "o", "r", "s", "t", " ", "e", "x", "p", "e", "r", "i", "e", "n", "c", "e">>,
       <<"n", "e", "v", "e", "r", " ", "a", "g", "a", "i", "n">>,
       <<"s", "o", "c", "i", "a", "l", " ", "m", "e", "d", "i", "a">>,
       <<"b", "a", "d", " ", "r", "e", "v", "i", "e", "w">>,
       <<"r", "e", "p", "o", "r", "t", " ", "y", "o", "u">>,
       <<"b", "b", "b">>,
       <<"e", "m", "e", "r", "g", "e", "n", "c", "y">>,
       <<"u", "r", "g", "e", "n", "t">>,
       <<"c", "r", "i", "t", "i", "c", "a", "l">>,
       <<"p", "r", "o", "d", "u", "c", "t", "i", "o", "n", " ", "d", "o", "w", "n">>,
       <<"o", "u", "t", "a", "g", "e">> >>

\* guardrails.ts 136
CriticalKeywords ==
    { <<"l", "a", "w", "s", "u", "i", "t">>,
      <<"l", "e", "g", "a", "l", " ", "a", "c", "t", "i", "o", "n">>,
      <<"b", "r", "e", "a", "c", "h">>,
      <<"h", "a", "c", "k">>,
      <<"s", "e", "c", "u", "r", "i", "t", "y", " ", "i", "n", "c", "i", "d", "e", "n", "t">> }

\* guardrails.ts 140
HighKeywords ==
    { <<"c", "o", "m", "p", "l", "i", "a", "n", "c", "e">>,
      <<"f", "r", "a", "u", "d">>,
      <<"e", "m", "e", "r", "g", "e", "n", "c", "y">>,
      <<"p", "r", "o", "d", "u", "c", "t", "i", "o", "n", " ", "d", "o", "w", "n">> }

Str_lawsuit == <<"l", "a", "w", "s", "u", "i", "t">>

Str_speak_to_human == <<"s", "p", "e", "a", "k", " ", "t", "o", " ", "h", "u", "m", "a", "n">>

Str_talk_to_person == <<"t", "a", "l", "k", " ", "t", "o", " ", "p", "e", "r", "s", "o", "n">>

Phrase_Lawsuit == <<"I", " ", "w", "i", "l", "l", " ", "f", "i", "l", "e", " ", "a", " ", "L", "a", "w", "s", "u", "i", "t">>

Phrase_fraud == <<"t", "h", "i", "s", " ", "i", "s", " ", "f", "r", "a", "u", "d">>

Phrase_sue == <<"I", "'", "m", " ", "g", "o", "i", "n", "g", " ", "t", "o", " ", "s", "u", "e", " ", "y", "o", "u">>

Phrase_slow == <<"m", "y", " ", "p", "r", "i", "n", "t", "e", "r", " ", "i", "s", " ", "s", "l", "o", "w">>

Phrase_human == <<"s", "p", "e", "a", "k", " ", "t", "o", " ", "h", "u", "m", "a", "n">>

Phrase_lawsuit == <<"l", "a", "w", "s", "u", "i", "t">>

\* EscalationCheck.reasons entries: the text and, for a keyword, the keyword
Reason(text, detail) == [text |-> text, detail |-> detail]

\* guardrails.ts 125-126: reasons = [], severity = 'low'
EmptyCheck == [reasons |-> <<>>, severity |-> "low"]

\* guardrails.ts 136-146: the severity after a keyword matched
SeverityAfterKeyword(severity, keyword) ==
    IF \E k \in CriticalKeywords : Includes(ToLowerCase(keyword), k) THEN "critical"
    ELSE IF \E k \in HighKeywords : Includes(ToLowerCase(keyword), k) THEN "high"
    ELSE IF severity # "critical" /\ severity # "high" THEN "medium"
    ELSE severity

\* guardrails.ts 131-148: one iteration of the keyword loop
CheckKeyword(acc, lowerMessage, keyword) ==
    IF Includes(lowerMessage, ToLowerCase(keyword))
    THEN [reasons |-> Append(acc.reasons, Reason("Keyword detected", keyword)),
          severity |-> SeverityAfterKeyword(acc.severity, keyword)]
    ELSE acc

\* guardrails.ts 152-155
CheckFailedAttempts(acc, ctx) ==
    IF TruthyNum(ctx.failedAttempts) /\ Val(ctx.failedAttempts) >= 3
    THEN [reasons |-> Append(acc.reasons,
                             Reason("Multiple failed resolution attempts", <<>>)),
          severity |-> IF acc.severity = "low" THEN "medium" ELSE acc.severity]
    ELSE acc

\* guardrails.ts 157-160
CheckCaseSeverity(acc, ctx) ==
    IF ctx.severity = Some("critical") \/ ctx.severity = Some("high")
    THEN [reasons |-> Append(acc.reasons, Reason("Case severity", <<>>)),
          severity |-> Val(ctx.severity)]
    ELSE acc

\* guardrails.ts 162-165
CheckCustomerRequested(acc, ctx) ==
    IF ctx.customerRequested = Some(TRUE)
    THEN [reasons |-> Append(acc.reasons,
                             Reason("Customer requested human agent", <<>>)),
          severity |-> IF acc.severity = "low" THEN "medium" ELSE acc.severity]
    ELSE acc

\* guardrails.ts 131-148: the keyword loop from keyword i on
RECURSIVE CheckKeywordsFrom(_, _, _)
CheckKeywordsFrom(acc, lowerMessage, i) ==
    IF i > Len(ESCALATION_KEYWORDS) THEN acc
    ELSE CheckKeywordsFrom(CheckKeyword(acc, lowerMessage, ESCALATION_KEYWORDS[i]),
                           lowerMessage, i + 1)

\* guardrails.ts 151-166
CheckContext(acc, context) ==
    IF context = Undef THEN acc
    ELSE CheckCustomerRequested(
             CheckCaseSeverity(CheckFailedAttempts(acc, Val(context)), Val(context)),
             Val(context))

\* guardrails.ts 168-172
EscalationCheck(acc) ==
    [shouldEscalate |-> Len(acc.reasons) > 0,
     reasons |-> acc.reasons,
     severity |-> acc.severity]

\* guardrails.ts 117-173
checkEscalationTriggers(message, context) ==
    EscalationCheck(CheckContext(CheckKeywordsFrom(EmptyCheck, ToLowerCase(message), 1),
                                 context))

\* the context argument of checkEscalationTriggers
Context(failedAttempts, severity, customerRequested) ==
    [failedAttempts |-> failedAttempts, severity |-> severity,
     customerRequested |-> customerRequested]

\* phrases the explored messages are made of
Phrases ==
    { Phrase_lawsuit, Phrase_Lawsuit, Phrase_fraud, Phrase_sue, Phrase_slow,
      Phrase_human }

\* messages of one or two phrases
Messages ==
    Phrases \cup { JoinWords(<<a, b>>) : a \in Phrases, b \in Phrases }

\* contexts: none, or every combination of the three signals
Contexts ==
    {Undef} \cup
    { Some(Context(f, s, c)) :
        f \in {Undef, Some(3)},
        s \in {Undef, Some("medium"), Some("high"), Some("critical")},
        c \in {Some(FALSE), Some(TRUE)} }

\* one evaluation of checkEscalationTriggers, statement by statement
InitEscalation ==
    /\ escMessage \in Messages
    /\ escContext \in Contexts
    /\ escAcc = EmptyCheck
    /\ escPhase = "keywords"
    /\ escIndex = 1
    /\ escResult = Undef

\* guardrails.ts 131-148: the iteration for keyword escIndex
EscKeyword ==
    /\ escPhase = "keywords"
    /\ escAcc' = CheckKeyword(escAcc, ToLowerCase(escMessage),
                              ESCALATION_KEYWORDS[escIndex])
    /\ escIndex' = escIndex + 1
    /\ escPhase' = IF escIndex < Len(ESCALATION_KEYWORDS) THEN "keywords"
                   ELSE IF escContext = Undef THEN "return"
                   ELSE "failedAttempts"
    /\ UNCHANGED <<escMessage, escContext, escResult>>

\* guardrails.ts 152-155
EscFailedAttempts ==
    /\ escPhase = "failedAttempts"
    /\ escAcc' = CheckFailedAttempts(escAcc, Val(escContext))
    /\ escPhase' = "caseSeverity"
    /\ UNCHANGED <<escMessage, escContext, escIndex, escResult>>

\* guardrails.ts 157-160
EscCaseSeverity ==
    /\ escPhase = "caseSeverity"
    /\ escAcc' = CheckCaseSeverity(escAcc, Val(escContext))
    /\ escPhase' = "customerRequested"
    /\ UNCHANGED <<escMessage, escContext, escIndex, escResult>>

\* guardrails.ts 162-165
EscCustomerRequested ==
    /\ escPhase = "customerRequested"
    /\ escAcc' = CheckCustomerRequested(escAcc, Val(escContext))
    /\ escPhase' = "return"
    /\ UNCHANGED <<escMessage, escContext, escIndex, escResult>>

\* guardrails.ts 168-172
EscReturn ==
    /\ escPhase = "return"
    /\ escResult' = Some(EscalationCheck(escAcc))
    /\ escPhase' = "done"
    /\ UNCHANGED <<escMessage, escContext, escAcc, escIndex>>

NextEscalation ==
    \/ (EscKeyword /\ UNCHANGED <<pbVars, agVars, rdVars, rtVars, emVars, cnVars, dkVars, vsVars, mcVars, fdVars, ctVars, lqVars>>)
    \/ (EscFailedAttempts /\ UNCHANGED <<pbVars, agVars, rdVars, rtVars, emVars, cnVars, dkVars, vsVars, mcVars, fdVars, ctVars, lqVars>>)
    \/ (EscCaseSeverity /\ UNCHANGED <<pbVars, agVars, rdVars, rtVars, emVars, cnVars, dkVars, vsVars, mcVars, fdVars, ctVars, lqVars>>)
    \/ (EscCustomerRequested /\ UNCHANGED <<pbVars, agVars, rdVars, rtVars, emVars, cnVars, dkVars, vsVars, mcVars, fdVars, ctVars, lqVars>>)
    \/ (EscReturn /\ UNCHANGED <<pbVars, agVars, rdVars, rtVars, emVars, cnVars, dkVars, vsVars, mcVars, fdVars, ctVars, lqVars>>)

\* the other components stay idle
EscalationInit ==
    InitEscalation /\ IdlePlaybook /\ IdleAgent /\ IdleRedaction /\
    IdleRetrieval /\ IdleEmbeddings /\ IdleChunker /\ IdleDesk /\
    IdleVision /\ IdleCases /\ IdleFind /\ IdleCitations /\ IdleQueue

SpecEscalation == EscalationInit /\ [][NextEscalation]_vars

(***************************************************************************)
(* Properties of the escalation triggers                                    *)
(***************************************************************************)
SeverityRank(s) ==
    CASE s = "low" -> 0 [] s = "medium" -> 1 [] s = "high" -> 2 [] s = "critical" -> 3

\* C6: the check of a message that contains "lawsuit" (in any letter case)
\* returns severity = critical, whatever else the message contains and
\* whatever context is supplied.
C6_LawsuitAlwaysCritical ==
    (escPhase = "done" /\ Includes(ToLowerCase(escMessage), Str_lawsuit))
        => Val(escResult).severity = "critical"

\* C7: within one evaluation the running severity never decreases from one
\* keyword match or context signal to the next, and an evaluation that has
\* reached critical returns critical.
C7_SeverityNeverDecreases ==
    [][SeverityRank(escAcc'.severity) >= SeverityRank(escAcc.severity)]_vars

(***************************************************************************)
(* GUARDRAILS: regular expressions (guardrails.ts 7-38, 194-199)            *)
(* A pattern is a list of alternatives tried in order at each start index;  *)
(* an alternative is a list of elements: a character class with a greedy    *)
(* repetition {min,max} that gives characters back on failure, or \b.        *)
(***************************************************************************)
DigitChars == {"0", "1", "2", "3", "4", "5", "6", "7", "8", "9"}

LowerChars == { LowerCaseLetters[i] : i \in 1..Len(LowerCaseLetters) }

UpperChars == { UpperCaseLetters[i] : i \in 1..Len(UpperCaseLetters) }

AlnumChars == LowerChars \cup UpperChars \cup DigitChars

\* \w
WordChars == AlnumChars \cup {"_"}

\* \s
SpaceChars == {" ", "\t", "\n", "\r"}

\* ['"]
QuoteChars == {"'", "\""}

\* [=:\s]
AssignChars == {"=", ":"} \cup SpaceChars

\* [set]{min,max}; max = {} is no upper limit
Cls(set, min, max) ==
    [kind |-> "class", negated |-> FALSE, set |-> set, min |-> min, max |-> max]

\* [^set]{min,max}
NotCls(set, min, max) ==
    [kind |-> "class", negated |-> TRUE, set |-> set, min |-> min, max |-> max]

\* \b
WordBoundary ==
    [kind |-> "boundary", negated |-> FALSE, set |-> {}, min |-> 0, max |-> Some(0)]

\* the characters of s, in a row
Lit(s) ==
    << [kind |-> "literal", negated |-> FALSE, set |-> {}, min |-> Len(s),
        max |-> Some(Len(s)), chars |-> s] >>

\* String.prototype.toUpperCase, one character
UpperChar(c) ==
    IF \E i \in 1..26 : LowerCaseLetters[i] = c
    THEN UpperCaseLetters[CHOOSE i \in 1..26 : LowerCaseLetters[i] = c]
    ELSE c

\* the character c is matched by the class element e
CharMatches(c, e, ignoreCase) ==
    LET inSet == IF ignoreCase
                 THEN c \in e.set \/ LowerChar(c) \in e.set \/ UpperChar(c) \in e.set
                 ELSE c \in e.set
    IN  inSet # e.negated

\* the characters of the literal element e are at pos (characters before it)
LiteralAt(text, pos, e, ignoreCase) ==
    /\ pos + Len(e.chars) <= Len(text)
    /\ \A i \in 1..Len(e.chars) :
           CharMatches(text[pos + i], Cls({e.chars[i]}, 1, Some(1)), ignoreCase)

\* \b holds between the characters at 1-based positions pos and pos + 1
AtWordBoundary(text, pos) ==
    LET before == pos >= 1 /\ text[pos] \in WordChars
        after == pos < Len(text) /\ text[pos + 1] \in WordChars
    IN  before # after

\* how many characters from pos on (at most e.max) the element e can take
RECURSIVE RunLength(_, _, _, _, _)
RunLength(text, pos, e, ignoreCase, n) ==
    IF /\ pos + n < Len(text)
       /\ (e.max = Undef \/ n < Val(e.max))
       /\ CharMatches(text[pos + n + 1], e, ignoreCase)
    THEN RunLength(text, pos, e, ignoreCase, n + 1)
    ELSE n

\* the end of the match of elements k.. at pos (characters consumed so far),
\* or -1; TryCounts takes the longest run of element k (of at most run
\* characters) after which the elements k + 1.. match
RECURSIVE MatchElems(_, _, _, _, _)
RECURSIVE TryCounts(_, _, _, _, _, _)
MatchElems(text, elems, k, pos, ignoreCase) ==
    IF k > Len(elems) THEN pos
    ELSE IF elems[k].kind = "boundary"
    THEN IF AtWordBoundary(text, pos)
         THEN MatchElems(text, elems, k + 1, pos, ignoreCase)
         ELSE -1
    ELSE IF elems[k].kind = "literal"
    THEN IF LiteralAt(text, pos, elems[k], ignoreCase)
         THEN MatchElems(text, elems, k + 1, pos + Len(elems[k].chars), ignoreCase)
         ELSE -1
    ELSE Val({ TryCounts(text, elems, k, pos, ignoreCase, n) :
                   n \in Some(RunLength(text, pos, elems[k], ignoreCase, 0)) })

TryCounts(text, elems, k, pos, ignoreCase, run) ==
    Val({ IF ends = {} THEN -1
          ELSE (CHOOSE e \in ends : \A o \in ends : e.n >= o.n).end :
              ends \in Some({ e \in { [n |-> n,
                                       end |-> MatchElems(text, elems, k + 1, pos + n,
                                                          ignoreCase)] :
                                         n \in elems[k].min..run } :
                                  e.end >= 0 }) })

\* the end of the match of the first alternative a.. that matches at pos, or -1
RECURSIVE MatchAlternatives(_, _, _, _)
MatchAlternatives(text, pattern, a, pos) ==
    IF a > Len(pattern.alternatives) THEN -1
    ELSE Val({ IF end >= 0 THEN end
               ELSE MatchAlternatives(text, pattern, a + 1, pos) :
                   end \in Some(MatchElems(text, pattern.alternatives[a], 1, pos,
                                           pattern.ignoreCase)) })

\* RegExp.prototype.exec of a global pattern: the leftmost match starting at
\* the 0-based index lastIndex or later, {} for null
Exec(text, pattern, lastIndex) ==
    Val({ IF matches = {} THEN Undef
          ELSE Some(CHOOSE match \in matches : \A o \in matches : match.index <= o.index) :
              matches \in Some({ match \in { [index |-> i,
                                             end |-> MatchAlternatives(text, pattern, 1, i)] :
                                               i \in lastIndex..Len(text) } :
                                    match.end >= 0 }) })

\* RegExp.prototype.test of a fresh pattern
Test(text, pattern) == Exec(text, pattern, 0) # Undef

\* the 0-based index of the first occurrence of sub in s at index i or later,
\* or -1
RECURSIVE IndexOfFrom(_, _, _)
IndexOfFrom(s, sub, i) ==
    IF i + Len(sub) > Len(s) THEN -1
    ELSE IF OccursAt(s, sub, i) THEN i
    ELSE IndexOfFrom(s, sub, i + 1)

\* String.prototype.replace(sub, replacement): the first occurrence only
ReplaceFirst(s, sub, replacement) ==
    Val({ IF i < 0 THEN s
          ELSE SubSeq(s, 1, i) \o replacement \o SubSeq(s, i + Len(sub) + 1, Len(s)) :
              i \in Some(IndexOfFrom(s, sub, 0)) })

(***************************************************************************)
(* GUARDRAILS: redaction and response validation                            *)
(***************************************************************************)

\* guardrails.ts 9
Pattern_APIKey ==
    [name |-> <<"A", "P", "I", " ", "K", "e", "y">>,
     ignoreCase |-> TRUE,
     alternatives |->
       << Lit(<<"a", "p", "i">>) \o <<Cls({"_", "-"}, 0, Some(1))>> \o Lit(<<"k", "e", "y">>) \o <<Cls(AssignChars, 1, Undef), Cls(QuoteChars, 0, Some(1)), Cls(WordChars \cup {"-"}, 20, Undef), Cls(QuoteChars, 0, Some(1))>>,
          Lit(<<"a", "p", "i", "k", "e", "y">>) \o <<Cls(AssignChars, 1, Undef), Cls(QuoteChars, 0, Some(1)), Cls(WordChars \cup {"-"}, 20, Undef), Cls(QuoteChars, 0, Some(1))>> >>]

\* guardrails.ts 10
Pattern_BearerToken ==
    [name |-> <<"B", "e", "a", "r", "e", "r", " ", "T", "o", "k", "e", "n">>,
     ignoreCase |-> TRUE,
     alternatives |->
       << Lit(<<"b", "e", "a", "r", "e", "r">>) \o <<Cls({":"} \cup SpaceChars, 1, Undef), Cls(QuoteChars, 0, Some(1)), Cls(WordChars \cup {"-", "."}, 20, Undef), Cls(QuoteChars, 0, Some(1))>>,
          Lit(<<"t", "o", "k", "e", "n">>) \o <<Cls({":"} \cup SpaceChars, 1, Undef), Cls(QuoteChars, 0, Some(1)), Cls(WordChars \cup {"-", "."}, 20, Undef), Cls(QuoteChars, 0, Some(1))>> >>]

\* guardrails.ts 11
Pattern_OpenAIAPIKey ==
    [name |-> <<"O", "p", "e", "n", "A", "I", " ", "A", "P", "I", " ", "K", "e", "y">>,
     ignoreCase |-> TRUE,
     alternatives |->
       << Lit(<<"s", "k", "-">>) \o <<Cls(AlnumChars, 32, Undef)>> >>]

\* guardrails.ts 12
Pattern_GitHubToken ==
    [name |-> <<"G", "i", "t", "H", "u", "b", " ", "T", "o", "k", "e", "n">>,
     ignoreCase |-> TRUE,
     alternatives |->
       << Lit(<<"g", "h", "p", "_">>) \o <<Cls(AlnumChars, 36, Some(36))>> >>]

\* guardrails.ts 13
Pattern_GitHubOAuthToken ==
    [name |-> <<"G", "i", "t", "H", "u", "b", " ", "O", "A", "u", "t", "h", " ", "T", "o", "k", "e", "n">>,
     ignoreCase |-> TRUE,
     alternatives |->
       << Lit(<<"g", "h", "o", "_">>) \o <<Cls(AlnumChars, 36, Some(36))>> >>]

\* guardrails.ts 14
Pattern_SlackToken ==
    [name |-> <<"S", "l", "a", "c", "k", " ", "T", "o", "k", "e", "n">>,
     ignoreCase |-> TRUE,
     alternatives |->
       << Lit(<<"x", "o", "x">>) \o <<Cls({"b", "a", "p", "r", "s"}, 1, Some(1))>> \o Lit(<<"-">>) \o <<Cls(AlnumChars \cup {"-"}, 1, Undef)>> >>]

\* guardrails.ts 17
Pattern_AWSAccessKey ==
    [name |-> <<"A", "W", "S", " ", "A", "c", "c", "e", "s", "s", " ", "K", "e", "y">>,
     ignoreCase |-> TRUE,
     alternatives |->
       << Lit(<<"A", "K", "I", "A">>) \o <<Cls(UpperChars \cup DigitChars, 16, Some(16))>> >>]

\* guardrails.ts 18
Pattern_AWSSecret ==
    [name |-> <<"A", "W", "S", " ", "S", "e", "c", "r", "e", "t">>,
     ignoreCase |-> TRUE,
     alternatives |->
       << Lit(<<"a", "w", "s">>) \o <<Cls({"_", "-"}, 0, Some(1))>> \o Lit(<<"s", "e", "c", "r", "e", "t">>) \o <<Cls(AssignChars, 1, Undef), Cls(QuoteChars, 0, Some(1)), Cls(AlnumChars \cup {"/", "+", "="}, 40, Some(40)), Cls(QuoteChars, 0, Some(1))>>,
          Lit(<<"s", "e", "c", "r", "e", "t">>) \o <<Cls({"_", "-"}, 0, Some(1))>> \o Lit(<<"k", "e", "y">>) \o <<Cls(AssignChars, 1, Undef), Cls(QuoteChars, 0, Some(1)), Cls(AlnumChars \cup {"/", "+", "="}, 40, Some(40)), Cls(QuoteChars, 0, Some(1))>> >>]

\* guardrails.ts 21
Pattern_Password ==
    [name |-> <<"P", "a", "s", "s", "w", "o", "r", "d">>,
     ignoreCase |-> TRUE,
     alternatives |->
       << Lit(<<"p", "a", "s", "s", "w", "o", "r", "d">>) \o <<Cls(AssignChars, 1, Undef), Cls(QuoteChars, 0, Some(1)), NotCls(SpaceChars \cup QuoteChars, 8, Undef), Cls(QuoteChars, 0, Some(1))>>,
          Lit(<<"p", "a", "s", "s", "w", "d">>) \o <<Cls(AssignChars, 1, Undef), Cls(QuoteChars, 0, Some(1)), NotCls(SpaceChars \cup QuoteChars, 8, Undef), Cls(QuoteChars, 0, Some(1))>>,
          Lit(<<"p", "w", "d">>) \o <<Cls(AssignChars, 1, Undef), Cls(QuoteChars, 0, Some(1)), NotCls(SpaceChars \cup QuoteChars, 8, Undef), Cls(QuoteChars, 0, Some(1))>> >>]

\* guardrails.ts 22
Pattern_Secret ==
    [name |-> <<"S", "e", "c", "r", "e", "t">>,
     ignoreCase |-> TRUE,
     alternatives |->
       << Lit(<<"s", "e", "c", "r", "e", "t">>) \o <<Cls(AssignChars, 1, Undef), Cls(QuoteChars, 0, Some(1)), NotCls(SpaceChars \cup QuoteChars, 8, Undef), Cls(QuoteChars, 0, Some(1))>>,
          Lit(<<"c", "r", "e", "d", "e", "n", "t", "i", "a", "l">>) \o <<Cls(AssignChars, 1, Undef), Cls(QuoteChars, 0, Some(1)), NotCls(SpaceChars \cup QuoteChars, 8, Undef), Cls(QuoteChars, 0, Some(1))>> >>]

\* guardrails.ts 25
Pattern_CreditCard ==
    [name |-> <<"C", "r", "e", "d", "i", "t", " ", "C", "a", "r", "d">>,
     ignoreCase |-> FALSE,
     alternatives |->
       << <<WordBoundary>> \o Lit(<<"4">>) \o <<Cls(DigitChars, 12, Some(12)), Cls(DigitChars, 3, Some(3)), WordBoundary>>,
          <<WordBoundary>> \o Lit(<<"4">>) \o <<Cls(DigitChars, 12, Some(12)), WordBoundary>>,
          <<WordBoundary>> \o Lit(<<"5">>) \o <<Cls({"1", "2", "3", "4", "5"}, 1, Some(1)), Cls(DigitChars, 14, Some(14)), WordBoundary>>,
          <<WordBoundary>> \o Lit(<<"3">>) \o <<Cls({"4", "7"}, 1, Some(1)), Cls(DigitChars, 13, Some(13)), WordBoundary>>,
          <<WordBoundary>> \o Lit(<<"6", "0", "1", "1">>) \o <<Cls(DigitChars, 12, Some(12)), WordBoundary>>,
          <<WordBoundary>> \o Lit(<<"6", "5">>) \o <<Cls(DigitChars, 2, Some(2)), Cls(DigitChars, 12, Some(12)), WordBoundary>> >>]

\* guardrails.ts 28
Pattern_SSN ==
    [name |-> <<"S", "S", "N">>,
     ignoreCase |-> FALSE,
     alternatives |->
       << <<WordBoundary, Cls(DigitChars, 3, Some(3))>> \o Lit(<<"-">>) \o <<Cls(DigitChars, 2, Some(2))>> \o Lit(<<"-">>) \o <<Cls(DigitChars, 4, Some(4)), WordBoundary>> >>]

\* guardrails.ts 31
Pattern_PrivateKey ==
    [name |-> <<"P", "r", "i", "v", "a", "t", "e", " ", "K", "e", "y">>,
     ignoreCase |-> TRUE,
     alternatives |->
       << Lit(<<"-", "-", "-", "-", "-", "B", "E", "G", "I", "N", " ", "R", "S", "A", " ", "P", "R", "I", "V", "A", "T", "E", " ", "K", "E", "Y", "-", "-", "-", "-", "-">>),
          Lit(<<"-", "-", "-", "-", "-", "B", "E", "G", "I", "N", " ", "E", "C", " ", "P", "R", "I", "V", "A", "T", "E", " ", "K", "E", "Y", "-", "-", "-", "-", "-">>),
          Lit(<<"-", "-", "-", "-", "-", "B", "E", "G", "I", "N", " ", "D", "S", "A", " ", "P", "R", "I", "V", "A", "T", "E", " ", "K", "E", "Y", "-", "-", "-", "-", "-">>),
          Lit(<<"-", "-", "-", "-", "-", "B", "E", "G", "I", "N", " ", "O", "P", "E", "N", "S", "S", "H", " ", "P", "R", "I", "V", "A", "T", "E", " ", "K", "E", "Y", "-", "-", "-", "-", "-">>),
          Lit(<<"-", "-", "-", "-", "-", "B", "E", "G", "I", "N", " ", "P", "R", "I", "V", "A", "T", "E", " ", "K", "E", "Y", "-", "-", "-", "-", "-">>) >>]

\* guardrails.ts 34
Pattern_ConnectionString ==
    [name |-> <<"C", "o", "n", "n", "e", "c", "t", "i", "o", "n", " ", "S", "t", "r", "i", "n", "g">>,
     ignoreCase |-> TRUE,
     alternatives |->
       << Lit(<<"m", "o", "n", "g", "o", "d", "b", ":", "/", "/">>) \o <<NotCls(SpaceChars, 1, Undef)>>,
          Lit(<<"m", "y", "s", "q", "l", ":", "/", "/">>) \o <<NotCls(SpaceChars, 1, Undef)>>,
          Lit(<<"p", "o", "s", "t", "g", "r", "e", "s", "q", "l", ":", "/", "/">>) \o <<NotCls(SpaceChars, 1, Undef)>>,
          Lit(<<"r", "e", "d", "i", "s", ":", "/", "/">>) \o <<NotCls(SpaceChars, 1, Undef)>>,
          Lit(<<"a", "m", "q", "p", ":", "/", "/">>) \o <<NotCls(SpaceChars, 1, Undef)>> >>]

\* guardrails.ts 37
Pattern_EmailPassword ==
    [name |-> <<"E", "m", "a", "i", "l", ":", "P", "a", "s", "s", "w", "o", "r", "d">>,
     ignoreCase |-> TRUE,
     alternatives |->
       << <<Cls(AlnumChars \cup {".", "_", "%", "+", "-"}, 1, Undef)>> \o Lit(<<"@">>) \o <<Cls(AlnumChars \cup {".", "-"}, 1, Undef)>> \o Lit(<<".">>) \o <<Cls(LowerChars \cup UpperChars, 2, Undef)>> \o Lit(<<":">>) \o <<NotCls(SpaceChars, 1, Undef)>> >>]

\* guardrails.ts 7-38
SENSITIVE_PATTERNS ==
    << Pattern_APIKey,
       Pattern_BearerToken,
       Pattern_OpenAIAPIKey,
       Pattern_GitHubToken,
       Pattern_GitHubOAuthToken,
       Pattern_SlackToken,
       Pattern_AWSAccessKey,
       Pattern_AWSSecret,
       Pattern_Password,
       Pattern_Secret,
       Pattern_CreditCard,
       Pattern_SSN,
       Pattern_PrivateKey,
       Pattern_ConnectionString,
       Pattern_EmailPassword >>

\* guardrails.ts 194-199
InappropriatePatterns ==
    << [name |-> <<>>, ignoreCase |-> TRUE,
        alternatives |-> << <<WordBoundary>> \o Lit(<<"i", " ", "w", "i", "l", "l", " ", "h", "a", "c", "k">>) \o <<WordBoundary>> >>],
       [name |-> <<>>, ignoreCase |-> TRUE,
        alternatives |-> << <<WordBoundary>> \o Lit(<<"p", "a", "s", "s", "w", "o", "r", "d", " ", "i", "s">>) \o <<WordBoundary>> >>],
       [name |-> <<>>, ignoreCase |-> TRUE,
        alternatives |-> << <<WordBoundary>> \o Lit(<<"h", "e", "r", "e", "'", "s", " ", "y", "o", "u", "r", " ", "a", "p", "i", " ", "k", "e", "y">>) \o <<WordBoundary>> >>],
       [name |-> <<>>, ignoreCase |-> TRUE,
        alternatives |-> << <<WordBoundary>> \o Lit(<<"y", "o", "u", "r", " ", "c", "r", "e", "d", "i", "t", " ", "c", "a", "r", "d">>) \o <<WordBoundary>> >>] >>

Str_REDACTED == <<"[", "R", "E", "D", "A", "C", "T", "E", "D", " ">>

Str_Ellipsis == <<".", ".", ".">>

Text_password == <<"m", "y", " ", "p", "a", "s", "s", "w", "o", "r", "d", ":", " ", "h", "u", "n", "t", "e", "r", "2", "h", "u", "n", "t", "e", "r", "2">>

Text_reset == <<"p", "l", "e", "a", "s", "e", " ", "r", "e", "s", "t", "a", "r", "t", " ", "t", "h", "e", " ", "p", "r", "i", "n", "t", "e", "r">>

Text_card == <<"w", "e", " ", "h", "a", "v", "e", " ", "y", "o", "u", "r", " ", "c", "r", "e", "d", "i", "t", " ", "c", "a", "r", "d", " ", "o", "n", " ", "f", "i", "l", "e">>

Text_ssn == <<"m", "y", " ", "s", "s", "n", " ", "i", "s", " ", "1", "2", "3", "-", "4", "5", "-", "6", "7", "8", "9">>

\* guardrails.ts 89: `[REDACTED ${name}]`
Replacement(name) == Str_REDACTED \o name \o <<"]">>

\* guardrails.ts 87-98: the while loop of one pattern, from lastIndex on;
\* acc holds result and redactions
Redaction(name, original, position) ==
    [type |-> name,
     original |-> SubSeq(original, 1, 4) \o Str_Ellipsis,
     position |-> position]

\* guardrails.ts 88-97: the body of the while loop for one match
AfterMatch(acc, name, original, position) ==
    [text |-> ReplaceFirst(acc.text, original, Replacement(name)),
     redactions |-> Append(acc.redactions, Redaction(name, original, position))]

RECURSIVE RedactMatches(_, _, _, _)
RedactMatches(acc, text, pattern, lastIndex) ==
    Val({ IF match = Undef THEN acc
          ELSE Val({ RedactMatches(next, text, pattern, Val(match).end) :
                         next \in Some(AfterMatch(
                                     acc, pattern.name,
                                     SubSeq(text, Val(match).index + 1, Val(match).end),
                                     Val(match).index)) }) :
              match \in Some(Exec(text, pattern, lastIndex)) })

\* guardrails.ts 82-99: the for loop from pattern p on
RECURSIVE RedactPatterns(_, _, _)
RedactPatterns(acc, text, p) ==
    IF p > Len(SENSITIVE_PATTERNS) THEN acc
    ELSE Val({ RedactPatterns(next, text, p + 1) :
                   next \in Some(RedactMatches(acc, text, SENSITIVE_PATTERNS[p], 0)) })

\* guardrails.ts 78-106
redactSecrets(text) ==
    Val({ [text |-> acc.text,
           redactions |-> acc.redactions,
           hasSecrets |-> Len(acc.redactions) > 0] :
              acc \in Some(RedactPatterns([text |-> text, redactions |-> <<>>], text, 1)) })

\* guardrails.ts 178-218
validateAIResponse(response) ==
    Val({ Val({ [valid |-> Len(issues) = 0,
                 issues |-> issues,
                 sanitizedResponse |-> IF redaction.hasSecrets THEN redaction.text
                                       ELSE response] :
                    issues \in Some(
                        (IF redaction.hasSecrets THEN <<"sensitive data">> ELSE <<>>)
                        \o (IF \E i \in 1..Len(InappropriatePatterns) :
                                   Test(response, InappropriatePatterns[i])
                            THEN <<"inappropriate content">> ELSE <<>>)
                        \o (IF Len(response) > 4000 THEN <<"length">> ELSE <<>>)) }) :
              redaction \in Some(redactSecrets(response)) })

(***************************************************************************)
(* TIER-1 AND TIER-2 AGENT: one turn of processL1Request / processL2Request *)
(***************************************************************************)
\* l1-agent.ts 274
HandoffMessageL1 ==
    << "I", " ", "u", "n", "d", "e", "r", "s", "t", "a", "n", "d", " ", "t",
       "h", "i", "s", " ", "i", "s", " ", "a", " ", "c", "r", "i", "t", "i",
       "c", "a", "l", " ", "m", "a", "t", "t", "e", "r", ".", " ", "I", "'",
       "m", " ", "c", "o", "n", "n", "e", "c", "t", "i", "n", "g", " ", "y",
       "o", "u", " ", "w", "i", "t", "h", " ", "a", " ", "h", "u", "m", "a",
       "n", " ", "s", "u", "p", "p", "o", "r", "t", " ", "s", "p", "e", "c",
       "i", "a", "l", "i", "s", "t", " ", "r", "i", "g", "h", "t", " ", "a",
       "w", "a", "y", " ", "w", "h", "o", " ", "c", "a", "n", " ", "a", "s",
       "s", "i", "s", "t", " ", "y", "o", "u", " ", "b", "e", "t", "t", "e",
       "r", "." >>

\* l2-agent.ts 313
HandoffMessageL2 ==
    << "I", " ", "u", "n", "d", "e", "r", "s", "t", "a", "n", "d", " ", "t",
       "h", "i", "s", " ", "i", "s", " ", "a", " ", "c", "r", "i", "t", "i",
       "c", "a", "l", " ", "i", "s", "s", "u", "e", " ", "t", "h", "a", "t",
       " ", "r", "e", "q", "u", "i", "r", "e", "s", " ", "i", "m", "m", "e",
       "d", "i", "a", "t", "e", " ", "h", "u", "m", "a", "n", " ", "a", "t",
       "t", "e", "n", "t", "i", "o", "n", ".", " ", "I", "'", "m", " ", "c",
       "o", "n", "n", "e", "c", "t", "i", "n", "g", " ", "y", "o", "u", " ",
       "w", "i", "t", "h", " ", "a", " ", "s", "e", "n", "i", "o", "r", " ",
       "s", "u", "p", "p", "o", "r", "t", " ", "s", "p", "e", "c", "i", "a",
       "l", "i", "s", "t", " ", "r", "i", "g", "h", "t", " ", "n", "o", "w",
       "." >>

\* L1AgentContext / L2AgentContext: the fields the turn reads
AgentContext(severity, failedAttempts, conversationHistory) ==
    [severity |-> severity, failedAttempts |-> failedAttempts,
     conversationHistory |-> conversationHistory]

HistoryEntry(role, content) == [role |-> role, content |-> content]

\* inbound messages of the explored turns
AgentMessages ==
    { Phrase_sue, Phrase_lawsuit, Phrase_slow, Phrase_human, Text_password,
      JoinWords(<<Phrase_lawsuit, Phrase_fraud>>) }

\* conversation histories the caller re-supplies
AgentHistories ==
    { <<>>,
      <<HistoryEntry("user", Phrase_slow)>>,
      <<HistoryEntry("user", Text_password), HistoryEntry("assistant", Text_reset)>> }

AgentContexts ==
    { AgentContext(s, f, h) :
        s \in {"medium", "critical"}, f \in {Undef, Some(3)}, h \in AgentHistories }

\* what the LLM can answer: text content (<<>> for null) and at most one
\* tool call
CompletionContents == { <<>>, Text_reset, Text_password, Text_card }

ToolNames(tier) ==
    IF tier = "L1"
    THEN {"escalate_to_l2", "escalate_to_human", "mark_resolved"}
    ELSE {"escalate_to_human", "initiate_visionscreen"}

Completions(tier) ==
    { [content |-> c, toolCall |-> t] :
        c \in CompletionContents, t \in {Undef} \cup { Some(n) : n \in ToolNames(tier) } }

\* l1-agent.ts 267-268, l2-agent.ts 307
CustomerRequested(tier, safeUserMessage) ==
    \/ Includes(ToLowerCase(safeUserMessage), Str_speak_to_human)
    \/ (tier = "L1" /\ Includes(ToLowerCase(safeUserMessage), Str_talk_to_person))

\* l1-agent.ts 264-269, l2-agent.ts 304-308
TurnEscalationCheck(tier, context, safeUserMessage) ==
    checkEscalationTriggers(
        safeUserMessage,
        Some(Context(context.failedAttempts, Some(context.severity),
                     Some(CustomerRequested(tier, safeUserMessage)))))

ShortCircuitsOnHigh(check) == check.shouldEscalate /\ check.severity = "high"

\* l1-agent.ts 272, l2-agent.ts 311
ShortCircuits(check) == check.shouldEscalate /\ check.severity = "critical"

\* AgentResponse (L1AgentResponse / L2AgentResponse)
AgentResponse(message, action, shouldEscalate, reason, level, ragChunksUsed) ==
    [message |-> message, action |-> action, shouldEscalate |-> shouldEscalate,
     escalationReason |-> reason, escalationLevel |-> level,
     ragChunksUsed |-> ragChunksUsed]

\* l1-agent.ts 273-284, l2-agent.ts 312-323 (the tier-2 response has no
\* escalationLevel)
HandoffResponse(tier, check) ==
    AgentResponse(IF tier = "L1" THEN HandoffMessageL1 ELSE HandoffMessageL2,
                  Undef, TRUE, Some([from |-> "triggers", reasons |-> check.reasons]),
                  IF tier = "L1" THEN Some("L3") ELSE Undef, 0)

\* l1-agent.ts 331-338, l2-agent.ts 356-363: the messages of the LLM request
\* (the system prompt by the context it embeds)
LlmMessages(ragChunks, foundPlaybook, context, safeUserMessage) ==
    <<HistoryEntry("system", [ragChunks |-> ragChunks, playbook |-> foundPlaybook])>>
    \o [i \in 1..Len(context.conversationHistory) |->
          HistoryEntry(context.conversationHistory[i].role,
                       context.conversationHistory[i].content)]
    \o <<HistoryEntry("user", safeUserMessage)>>

ExternalCall(service, payload) == [service |-> service, payload |-> payload]

\* l1-agent.ts 387-394, l2-agent.ts 412-418
ResponseContent(content) ==
    Val({ IF ~validation.valid THEN validation.sanitizedResponse ELSE content :
              validation \in Some(validateAIResponse(content)) })

\* l1-agent.ts 354-427
L1Response(check, completion, ragChunks) ==
    LET tool == completion.toolCall
        escalates == tool \in {Some("escalate_to_l2"), Some("escalate_to_human")}
        shouldEscalate == IF escalates THEN TRUE ELSE check.shouldEscalate
        reason == IF escalates THEN [from |-> "tool", reasons |-> <<>>]
                  ELSE [from |-> "triggers", reasons |-> check.reasons]
        level == IF tool = Some("escalate_to_l2") THEN Some("L2")
                 ELSE IF tool = Some("escalate_to_human") THEN Some("L3")
                 ELSE Undef
    IN  AgentResponse(ResponseContent(completion.content), tool, shouldEscalate,
                      IF shouldEscalate THEN Some(reason) ELSE Undef, level, ragChunks)

\* l2-agent.ts 379-435
L2Response(check, completion, ragChunks) ==
    LET tool == completion.toolCall
        shouldEscalate == tool = Some("escalate_to_human")
    IN  AgentResponse(ResponseContent(completion.content), tool, shouldEscalate,
                      IF shouldEscalate THEN Some([from |-> "tool", reasons |-> <<>>])
                      ELSE Undef,
                      Undef, ragChunks)

InitAgent ==
    /\ agTier \in {"L1", "L2"}
    /\ agContext \in AgentContexts
    /\ agUserMessage \in AgentMessages
    /\ agPc = "start"
    /\ agSafeUserMessage = <<>>
    /\ agCheck = Undef
    /\ agRagChunks = 0
    /\ agPlaybook = FALSE
    /\ agTrace = <<>>
    /\ agCompletion = Undef
    /\ agResponse = Undef
    /\ agLog = <<>>

\* l1-agent.ts 259-285, l2-agent.ts 299-324: redact the inbound message, run
\* the trigger check, return the hand-off on critical
AgRedactAndCheck ==
    /\ agPc = "start"
    /\ \E safeUserMessage \in Some(redactSecrets(agUserMessage).text) :
       \E check \in Some(TurnEscalationCheck(agTier, agContext, safeUserMessage)) :
           /\ agSafeUserMessage' = safeUserMessage
           /\ agCheck' = Some(check)
           /\ IF ShortCircuits(check)
              THEN /\ agResponse' = Some(HandoffResponse(agTier, check))
                   /\ agPc' = "done"
              ELSE /\ agResponse' = agResponse
                   /\ agPc' = "retrieve"
    /\ UNCHANGED <<agTier, agContext, agUserMessage, agRagChunks, agPlaybook, agTrace,
                   agCompletion, agLog>>

\* a retrieval whose throw is not caught: the turn rejects
AgRetrieveRethrows(outcome) ==
    /\ agPc = "retrieve"
    /\ agTrace' = agTrace
                  \o <<ExternalCall("embeddings", agSafeUserMessage)>>
                  \o (IF outcome = "embedding throws" THEN <<>>
                      ELSE <<ExternalCall("vectorIndex", agSafeUserMessage)>>)
    /\ agRagChunks' = IF outcome = "chunks" THEN 2 ELSE 0
    /\ agPc' = IF outcome \in {"embedding throws", "query throws"} THEN "rejected"
               ELSE IF agTier = "L1" THEN "playbook" ELSE "llm"
    /\ UNCHANGED <<agTier, agContext, agUserMessage, agSafeUserMessage, agCheck,
                   agPlaybook, agCompletion, agResponse, agLog>>

\* l1-agent.ts 287-312, l2-agent.ts 326-350 with retrieval.ts 38-58: embed
\* the query, query the index; a throw of either is caught and logged
AgRetrieve(outcome) ==
    /\ agPc = "retrieve"
    /\ agTrace' = agTrace
                  \o <<ExternalCall("embeddings", agSafeUserMessage)>>
                  \o (IF outcome = "embedding throws" THEN <<>>
                      ELSE <<ExternalCall("vectorIndex", agSafeUserMessage)>>)
    /\ agRagChunks' = IF outcome = "chunks" THEN 2 ELSE 0
    /\ agLog' = IF outcome \in {"embedding throws", "query throws"}
                THEN Append(agLog, "RAG retrieval error")
                ELSE agLog
    /\ agPc' = IF agTier = "L1" THEN "playbook" ELSE "llm"
    /\ UNCHANGED <<agTier, agContext, agUserMessage, agSafeUserMessage, agCheck,
                   agPlaybook, agCompletion, agResponse>>

\* l1-agent.ts 314-325: the first matching playbook, if any; a throw of the
\* lookup is caught and logged, and playbook stays undefined
AgFindPlaybook(outcome) ==
    /\ agPc = "playbook"
    /\ agPlaybook' = (outcome = "found")
    /\ agLog' = IF outcome = "lookup throws"
                THEN Append(agLog, "Playbook lookup error")
                ELSE agLog
    /\ agPc' = "llm"
    /\ UNCHANGED <<agTier, agContext, agUserMessage, agSafeUserMessage, agCheck,
                   agRagChunks, agTrace, agCompletion, agResponse>>

\* l1-agent.ts 327-348, l2-agent.ts 352-373: build the request, call the LLM
AgCallLLM ==
    /\ agPc = "llm"
    /\ agTrace' = Append(agTrace,
                         ExternalCall("llm", LlmMessages(agRagChunks, agPlaybook,
                                                         agContext, agSafeUserMessage)))
    /\ agPc' = "completion"
    /\ UNCHANGED <<agTier, agContext, agUserMessage, agSafeUserMessage, agCheck,
                   agRagChunks, agPlaybook, agCompletion, agResponse, agLog>>

\* the LLM call throws: the turn rejects (no catch around it)
AgLLMThrows ==
    /\ agPc = "completion"
    /\ agPc' = "rejected"
    /\ UNCHANGED <<agTier, agContext, agUserMessage, agSafeUserMessage, agCheck,
                   agRagChunks, agPlaybook, agTrace, agCompletion, agResponse, agLog>>

\* l1-agent.ts 350-427, l2-agent.ts 375-435: interpret the tool call,
\* validate the text, return
AgRespond(completion) ==
    /\ agPc = "completion"
    /\ agResponse' = Some(IF agTier = "L1"
                          THEN L1Response(Val(agCheck), completion, agRagChunks)
                          ELSE L2Response(Val(agCheck), completion, agRagChunks))
    /\ agCompletion' = Some(completion)
    /\ agPc' = "done"
    /\ UNCHANGED <<agTier, agContext, agUserMessage, agSafeUserMessage, agCheck,
                   agRagChunks, agPlaybook, agTrace, agLog>>

NextAgent ==
    \/ (AgRedactAndCheck /\ UNCHANGED <<pbVars, escVars, rdVars, rtVars, emVars, cnVars, dkVars, vsVars, mcVars, fdVars, ctVars, lqVars>>)
    \/ \E outcome \in {"embedding throws", "query throws", "no chunks", "chunks"} :
          AgRetrieve(outcome) /\ UNCHANGED <<pbVars, escVars, rdVars, rtVars, emVars, cnVars, dkVars, vsVars, mcVars, fdVars, ctVars, lqVars>>
    \/ \E outcome \in {"lookup throws", "none", "found"} :
          AgFindPlaybook(outcome) /\ UNCHANGED <<pbVars, escVars, rdVars, rtVars, emVars, cnVars, dkVars, vsVars, mcVars, fdVars, ctVars, lqVars>>
    \/ (AgCallLLM /\ UNCHANGED <<pbVars, escVars, rdVars, rtVars, emVars, cnVars, dkVars, vsVars, mcVars, fdVars, ctVars, lqVars>>)
    \/ (AgLLMThrows /\ UNCHANGED <<pbVars, escVars, rdVars, rtVars, emVars, cnVars, dkVars, vsVars, mcVars, fdVars, ctVars, lqVars>>)
    \/ \E completion \in Completions(agTier) :
          AgRespond(completion) /\ UNCHANGED <<pbVars, escVars, rdVars, rtVars, emVars, cnVars, dkVars, vsVars, mcVars, fdVars, ctVars, lqVars>>

\* the other components stay idle
AgentInit ==
    InitAgent /\ IdlePlaybook /\ IdleEscalation /\ IdleRedaction /\
    IdleRetrieval /\ IdleEmbeddings /\ IdleChunker /\ IdleDesk /\
    IdleVision /\ IdleCases /\ IdleFind /\ IdleCitations /\ IdleQueue

SpecAgent == AgentInit /\ [][NextAgent]_vars

(***************************************************************************)
(* Claims about the agent turns                                             *)
(***************************************************************************)
\* the turn has computed its escalation check with this severity
CheckSeverityIs(severity) == agCheck # Undef /\ Val(agCheck).severity = severity

\* the external calls of the turn to this service
CallsTo(service) == { i \in 1..Len(agTrace) : agTrace[i].service = service }

\* the turn returned the human hand-off of tier 1
ReturnedHandoffL3 ==
    /\ agPc = "done"
    /\ agResponse # Undef
    /\ Val(agResponse).shouldEscalate
    /\ Val(agResponse).escalationLevel = Some("L3")

\* C8: tier-1 critical short-circuit.  Whenever the escalation-trigger check
\* on the redacted inbound message yields severity critical,
\* processL1Request returns a human hand-off (shouldEscalate = true,
\* escalationLevel = 'L3') and makes no embedding call, no vector-index
\* query and no LLM call in that turn.
C8_CriticalShortCircuitsL1 ==
    (agTier = "L1" /\ CheckSeverityIs("critical"))
        => /\ ReturnedHandoffL3
           /\ CallsTo("embeddings") = {}
           /\ CallsTo("vectorIndex") = {}
           /\ CallsTo("llm") = {}
           /\ agCompletion = Undef

\* a tier-1 turn on a message with "lawsuit" whose check came out critical
\* has returned
C8_Witness ==
    /\ agTier = "L1"
    /\ agPc = "done"
    /\ CheckSeverityIs("critical")
    /\ Includes(ToLowerCase(agUserMessage), Str_lawsuit)
    /\ Val(agResponse).message = HandoffMessageL1
    /\ agTrace = <<>>

\* C9: a tier-1 turn whose message contains "I'm going to sue you" returns
\* immediately with shouldEscalate = true and escalationLevel = 'L3', having
\* made zero LLM calls and zero retrieval (embedding / vector-index) calls.
C9_SueShortCircuits ==
    (agTier = "L1" /\ Includes(agUserMessage, Phrase_sue) /\ agPc # "start")
        => /\ ReturnedHandoffL3
           /\ agTrace = <<>>

\* the original text the j-th message of an LLM request was built from
\* (message 1 is the system prompt, the last is the inbound message)
OriginalOf(messages, j) ==
    IF j = Len(messages) THEN agUserMessage
    ELSE agContext.conversationHistory[j - 1].content

\* every user-authored text of every LLM request of the turn is the
\* redacted form of the text it was built from
InboundRedacted ==
    \A i \in CallsTo("llm") :
        \A j \in 2..Len(agTrace[i].payload) :
            agTrace[i].payload[j].role = "user"
                => agTrace[i].payload[j].content
                       = redactSecrets(OriginalOf(agTrace[i].payload, j)).text

\* the returned message is the redacted form of the model output
OutboundRedacted ==
    (agPc = "done" /\ agCompletion # Undef)
        => Val(agResponse).message = redactSecrets(Val(agCompletion).content).text

\* C10: symmetric redaction in both agents.  In every tier-1 and tier-2
\* turn, every user-authored text placed in the LLM request has first been
\* passed through redactSecrets, and the message text returned to the caller
\* is the redacted form of the model output (sanitizedResponse whenever
\* validateAIResponse reports valid = false, never the raw model text).
C10_SymmetricRedaction == InboundRedacted /\ OutboundRedacted

(***************************************************************************)
(* GUARDRAILS: redactSecrets on crafted texts                               *)
(***************************************************************************)
Frag_secretLabel == <<"s", "e", "c", "r", "e", "t", ":">>

Frag_passwordLabel == <<"p", "a", "s", "s", "w", "o", "r", "d", ":">>

Frag_password == <<"p", "a", "s", "s", "w", "o", "r", "d", ":", " ", "h", "u", "n", "t", "e", "r", "2", "h", "u", "n", "t", "e", "r", "2">>

Frag_ssn == <<"1", "2", "3", "-", "4", "5", "-", "6", "7", "8", "9">>

Frag_xssn == <<"x", "1", "2", "3", "-", "4", "5", "-", "6", "7", "8", "9">>

Frag_secret == <<"s", "e", "c", "r", "e", "t", ":", " ", "t", "o", "p", "s", "e", "c", "r", "e", "t", "9", "9">>

\* the pieces the crafted texts are made of
RedactFragments ==
    { Frag_secretLabel, Frag_passwordLabel, Frag_password, Frag_ssn, Frag_xssn,
      Frag_secret, Text_reset, Text_ssn }

\* the text argument: one or two pieces, separated by a space
RedactInputs ==
    RedactFragments \cup { JoinWords(<<a, b>>) : a, b \in RedactFragments }

InitRedaction ==
    /\ rdInput \in RedactInputs
    /\ rdPhase = "input"
    /\ rdFirst = Undef
    /\ rdSecond = Undef

\* guardrails.ts 78-106: redactSecrets(rdInput)
Redact ==
    /\ rdPhase = "input"
    /\ rdFirst' = Some(redactSecrets(rdInput))
    /\ rdPhase' = "redacted"
    /\ UNCHANGED <<rdInput, rdSecond>>

\* guardrails.ts 78-106: redactSecrets on the text the first call returned
RedactAgain ==
    /\ rdPhase = "redacted"
    /\ rdSecond' = Some(redactSecrets(Val(rdFirst).text))
    /\ rdPhase' = "again"
    /\ UNCHANGED <<rdInput, rdFirst>>

NextRedaction ==
    \/ (Redact /\ UNCHANGED <<pbVars, escVars, agVars, rtVars, emVars, cnVars, dkVars, vsVars, mcVars, fdVars, ctVars, lqVars>>)
    \/ (RedactAgain /\ UNCHANGED <<pbVars, escVars, agVars, rtVars, emVars, cnVars, dkVars, vsVars, mcVars, fdVars, ctVars, lqVars>>)

\* the other components stay idle
RedactionInit ==
    InitRedaction /\ IdlePlaybook /\ IdleEscalation /\ IdleAgent /\
    IdleRetrieval /\ IdleEmbeddings /\ IdleChunker /\ IdleDesk /\
    IdleVision /\ IdleCases /\ IdleFind /\ IdleCitations /\ IdleQueue

SpecRedaction == RedactionInit /\ [][NextRedaction]_vars

(***************************************************************************)
(* Properties of the redaction                                              *)
(***************************************************************************)
\* the tokens of text that the scan of pattern finds: exec from lastIndex on,
\* each match continuing where the one before ended
RECURSIVE MatchedTokens(_, _, _)
MatchedTokens(text, pattern, lastIndex) ==
    Val({ IF match = Undef THEN {}
          ELSE {SubSeq(text, Val(match).index + 1, Val(match).end)}
               \cup MatchedTokens(text, pattern, Val(match).end) :
              match \in Some(Exec(text, pattern, lastIndex)) })

\* the tokens of text that some pattern of the catalogue matches
SensitiveTokens(text) ==
    UNION { MatchedTokens(text, SENSITIVE_PATTERNS[p], 0) :
              p \in 1..Len(SENSITIVE_PATTERNS) }

\* C11: for every pattern of the catalogue and every input, no token of the
\* input that the pattern matches is present verbatim in the text that
\* redactSecrets returns, also when a token occurs several times or matches
\* of different patterns overlap.
C11_NoTokenVerbatim ==
    rdFirst # Undef
        => \A token \in SensitiveTokens(rdInput) : ~Includes(Val(rdFirst).text, token)

\* C12: redactSecrets is idempotent on its text output:
\* redactSecrets(redactSecrets(x).text).text = redactSecrets(x).text.
C12_RedactIdempotent ==
    rdSecond # Undef => Val(rdSecond).text = Val(rdFirst).text


(***************************************************************************)
(* Degraded dependencies of a tier-1 turn                                   *)
(***************************************************************************)
\* the turn caught and logged this error
Logged(error) == \E i \in 1..Len(agLog) : agLog[i] = error

\* the system prompt of the turn's LLM request
SystemPromptOf(call) == agTrace[call].payload[1].content

DefaultMinScore == 70

\* retrieval.ts 79: maxTokens = 2000
DefaultMaxTokens == 2000

\* retrieval.ts 89: roughly 4 chars per token
CharsPerToken == 4

\* retrieval.ts 101: a truncated chunk is added when longer than this
TruncationMinLength == 100

MaxMatches == 3

Content_restart == <<"R", "e", "s", "t", "a", "r", "t", ".">>
Content_unplug == <<"U", "n", "p", "l", "u", "g", " ", "i", "t", ",", " ", "w", "a", "i", "t", ".", " ">>
Content_manual == [i \in 1..120 |-> IF i % 10 = 0 THEN " " ELSE "m"]

\* pinecone.ts 82-86: a match of the index (metadata may be missing)
Match(score, content) == [score |-> score, content |-> content]

MatchPool ==
    { Match(90, Some(Content_restart)), Match(80, Some(Content_manual)),
      Match(72, Some(Content_unplug)), Match(65, Undef) }

MatchLists ==
    UNION { [1..n -> MatchPool] : n \in 0..MaxMatches }

TokenBudgets == {2, 29, 30, DefaultMaxTokens}

\* retrieval.ts 63-73: the result made of a match
RetrievalResult(match) ==
    [content |-> IF match.content # Undef THEN Val(match.content) ELSE <<>>,
     score |-> match.score]

\* retrieval.ts 60-73: filter by minimum score and format, in the order of
\* the index
retrieveRelevantChunks(matches, minScore) ==
    LET kept == SelectSeq(matches, LAMBDA match : match.score >= minScore)
    IN  [i \in 1..Len(kept) |-> RetrievalResult(kept[i])]

\* retrieval.ts 86: [...chunks].sort((a, b) => b.score - a.score), a stable
\* sort by descending score
SortByScore(chunks) ==
    LET Rank(i) ==
            Cardinality({ j \in 1..Len(chunks) : chunks[j].score > chunks[i].score })
            + Cardinality({ j \in 1..(i - 1) : chunks[j].score = chunks[i].score })
            + 1
    IN  [k \in 1..Len(chunks) |-> chunks[CHOOSE i \in 1..Len(chunks) : Rank(i) = k]]

\* retrieval.ts 89
estimateTokens(text) == (Len(text) + CharsPerToken - 1) \div CharsPerToken

\* String.prototype.slice(0, end) for end >= 0
SliceTo(text, end) == SubSeq(text, 1, IF end < Len(text) THEN end ELSE Len(text))

WhitespaceChars == {" ", "\n", "\t", "\r"}

\* String.prototype.trim
Trim(text) ==
    LET kept == { i \in 1..Len(text) : text[i] \notin WhitespaceChars }
    IN  IF kept = {} THEN <<>>
        ELSE SubSeq(text, CHOOSE i \in kept : \A j \in kept : i <= j,
                          CHOOSE i \in kept : \A j \in kept : i >= j)

Str_Delimiter == <<"\n", "-", "-", "-", "\n">>

RECURSIVE AssembleFrom(_, _, _, _, _)
\* retrieval.ts 94-109: the loop over the sorted chunks from chunk i on
AssembleFrom(sortedChunks, i, context, totalTokens, maxTokens) ==
    IF i > Len(sortedChunks) THEN context
    ELSE LET chunk == sortedChunks[i]
             chunkTokens == estimateTokens(chunk.content)
             remainingTokens == maxTokens - totalTokens
             truncatedContent == SliceTo(chunk.content, remainingTokens * CharsPerToken)
         IN  IF totalTokens + chunkTokens > maxTokens
             THEN IF Len(truncatedContent) > TruncationMinLength
                  THEN context \o Str_Delimiter \o truncatedContent \o Str_Ellipsis
                  ELSE context
             ELSE AssembleFrom(sortedChunks, i + 1,
                               context \o Str_Delimiter \o chunk.content,
                               totalTokens + chunkTokens, maxTokens)

\* retrieval.ts 77-112
assembleContext(chunks, maxTokens) ==
    IF Len(chunks) = 0 THEN <<>>
    ELSE Trim(AssembleFrom(SortByScore(chunks), 1, <<>>, 0, maxTokens))

InitRetrieval ==
    /\ rtMatches \in MatchLists
    /\ rtMinScore \in {0, DefaultMinScore}
    /\ rtMaxTokens \in TokenBudgets
    /\ rtPhase = "query"
    /\ rtChunks = <<>>
    /\ rtContext = <<>>

\* retrieval.ts 25-74: embed the query, query the index, filter and format
RetrieveRelevantChunks ==
    /\ rtPhase = "query"
    /\ rtChunks' = retrieveRelevantChunks(rtMatches, rtMinScore)
    /\ rtPhase' = "retrieved"
    /\ UNCHANGED <<rtMatches, rtMinScore, rtMaxTokens, rtContext>>

\* retrieval.ts 39, 54: generateEmbedding or queryVectors throws; the call
\* rejects
RetrieveThrows ==
    /\ rtPhase = "query"
    /\ rtPhase' = "rejected"
    /\ UNCHANGED <<rtMatches, rtMinScore, rtMaxTokens, rtChunks, rtContext>>

\* retrieval.ts 77-112 on the retrieved chunks
AssembleContext ==
    /\ rtPhase = "retrieved"
    /\ rtContext' = assembleContext(rtChunks, rtMaxTokens)
    /\ rtPhase' = "assembled"
    /\ UNCHANGED <<rtMatches, rtMinScore, rtMaxTokens, rtChunks>>

NextRetrieval ==
    \/ (RetrieveRelevantChunks /\ UNCHANGED <<pbVars, escVars, agVars, rdVars, emVars, cnVars, dkVars, vsVars, mcVars, fdVars, ctVars, lqVars>>)
    \/ (RetrieveThrows /\ UNCHANGED <<pbVars, escVars, agVars, rdVars, emVars, cnVars, dkVars, vsVars, mcVars, fdVars, ctVars, lqVars>>)
    \/ (AssembleContext /\ UNCHANGED <<pbVars, escVars, agVars, rdVars, emVars, cnVars, dkVars, vsVars, mcVars, fdVars, ctVars, lqVars>>)

\* the other components stay idle
RetrievalInit ==
    InitRetrieval /\ IdlePlaybook /\ IdleEscalation /\ IdleAgent /\
    IdleRedaction /\ IdleEmbeddings /\ IdleChunker /\ IdleDesk /\
    IdleVision /\ IdleCases /\ IdleFind /\ IdleCitations /\ IdleQueue

SpecRetrieval == RetrievalInit /\ [][NextRetrieval]_vars

\* C14: the results retrieveRelevantChunks returns are sorted by
\* non-increasing score, whatever the order in which the index returned its
\* matches.
C14_SortedByScore ==
    rtPhase \in {"retrieved", "assembled"} =>
        \A i \in 1..(Len(rtChunks) - 1) : rtChunks[i].score >= rtChunks[i + 1].score

\* C15: the token estimate (ceil(length / 4)) of the string assembleContext
\* returns, delimiters and truncation marker included, is at most maxTokens.
C15_ContextWithinBudget ==
    rtPhase = "assembled" => estimateTokens(rtContext) <= rtMaxTokens


(***************************************************************************)
(* Batch embeddings (knowledge-base/embeddings.ts)                          *)
(***************************************************************************)
\* embeddings.ts 20
MAX_BATCH_SIZE == 100

ScenarioTexts == 250

\* the numbers of texts of the calls
TextCounts == {0, 1, MAX_BATCH_SIZE - 1, MAX_BATCH_SIZE, MAX_BATCH_SIZE + 1,
               2 * MAX_BATCH_SIZE, ScenarioTexts}

\* the i-th text of a call (texts are pairwise different)
TextOf(i) == <<"text", i>>

\* the embedding the provider computes for a text
EmbeddingOf(text) == <<"embedding of", text>>

\* the orders in which the provider lists the items of its response
ProviderOrders == {"input order", "reversed", "rotated"}

\* the position in the input of the j-th item of a response of n items
InputPosition(order, n, j) ==
    IF order = "input order" THEN j
    ELSE IF order = "reversed" THEN n + 1 - j
    ELSE (j % n) + 1

\* the response of client.embeddings.create: one item per input, each with
\* the zero-based index of its input and the embedding of that input
ProviderResponse(batch, order) ==
    [j \in 1..Len(batch) |->
        [index |-> InputPosition(order, Len(batch), j) - 1,
         embedding |-> EmbeddingOf(batch[InputPosition(order, Len(batch), j)])]]

\* the error a failing provider call throws
ProviderError(start) == <<"provider error of batch starting at", start>>

\* embeddings.ts 52: texts.slice(i, i + MAX_BATCH_SIZE)
BatchAt(texts, i) ==
    SubSeq(texts, i + 1, IF i + MAX_BATCH_SIZE < Len(texts) THEN i + MAX_BATCH_SIZE
                         ELSE Len(texts))

\* embeddings.ts 63-69: one result per item of the response, taken by
\* position (batchIndices[j] = i + j)
BatchResults(batch, i, data) ==
    [j \in 1..Len(data) |->
        [text |-> batch[j], embedding |-> data[j].embedding, index |-> i + j - 1]]

IsSortedByIndex(results) ==
    \A k \in 1..(Len(results) - 1) : results[k].index <= results[k + 1].index

\* embeddings.ts 87: results.sort((a, b) => a.index - b.index), a stable
\* sort (a sorted array is left as it is)
SortByIndex(results) ==
    IF IsSortedByIndex(results) THEN results
    ELSE LET Rank(i) ==
                 Cardinality({ j \in 1..Len(results) :
                                  results[j].index < results[i].index })
                 + Cardinality({ j \in 1..(i - 1) :
                                    results[j].index = results[i].index })
                 + 1
         IN  [k \in 1..Len(results) |->
                 results[CHOOSE i \in 1..Len(results) : Rank(i) = k]]

\* embeddings.ts 58: the record of a provider call
ProviderCall(start, size, outcome) ==
    [start |-> start, size |-> size, outcome |-> outcome]

InitEmbeddings ==
    /\ emTexts \in { [i \in 1..n |-> TextOf(i)] : n \in TextCounts }
    /\ emOnProgress \in BOOLEAN
    /\ emI = 0
    /\ emResults = <<>>
    /\ emCalls = <<>>
    /\ emProgress = <<>>
    /\ emPhase = "loop"
    /\ emReturn = Undef
    /\ emRejection = Undef

\* embeddings.ts 51, 86-87 with no texts: the loop is not entered
EmReturnEmpty ==
    /\ emPhase = "loop"
    /\ ~(emI < Len(emTexts))
    /\ emReturn' = Some(SortByIndex(emResults))
    /\ emPhase' = "returned"
    /\ UNCHANGED <<emTexts, emOnProgress, emI, emResults, emCalls, emProgress,
                   emRejection>>

\* embeddings.ts 51-79, 86-87: one pass of the loop whose provider call
\* answers, and the return after the last pass
EmBatchAnswered(order) ==
    /\ emPhase = "loop"
    /\ emI < Len(emTexts)
    /\ \E batch \in Some(BatchAt(emTexts, emI)) :
         /\ emCalls' = Append(emCalls, ProviderCall(emI, Len(batch), "answers"))
         /\ emResults' = emResults
                         \o BatchResults(batch, emI, ProviderResponse(batch, order))
    /\ emProgress' = IF emOnProgress
                     THEN Append(emProgress,
                                 IF emI + MAX_BATCH_SIZE < Len(emTexts)
                                 THEN emI + MAX_BATCH_SIZE ELSE Len(emTexts))
                     ELSE emProgress
    /\ emI' = emI + MAX_BATCH_SIZE
    /\ IF emI + MAX_BATCH_SIZE < Len(emTexts)
       THEN /\ emPhase' = "loop"
            /\ emReturn' = emReturn
       ELSE /\ emPhase' = "returned"
            /\ emReturn' = Some(SortByIndex(emResults'))
    /\ UNCHANGED <<emTexts, emOnProgress, emRejection>>

\* a pass whose provider call fails, with the error of the batch swallowed
EmBatchFailsSwallowed ==
    /\ emPhase = "loop"
    /\ emI < Len(emTexts)
    /\ emCalls' = Append(emCalls,
                         ProviderCall(emI, Len(BatchAt(emTexts, emI)), "throws"))
    /\ emI' = emI + MAX_BATCH_SIZE
    /\ IF emI + MAX_BATCH_SIZE < Len(emTexts)
       THEN /\ emPhase' = "loop"
            /\ emReturn' = emReturn
       ELSE /\ emPhase' = "returned"
            /\ emReturn' = Some(SortByIndex(emResults))
    /\ UNCHANGED <<emTexts, emOnProgress, emResults, emProgress, emRejection>>

\* embeddings.ts 55-60, 80-83: the provider call throws; the error is logged
\* and thrown again
EmBatchFails ==
    /\ emPhase = "loop"
    /\ emI < Len(emTexts)
    /\ emCalls' = Append(emCalls,
                         ProviderCall(emI, Len(BatchAt(emTexts, emI)), "throws"))
    /\ emRejection' = Some(ProviderError(emI))
    /\ emPhase' = "rejected"
    /\ UNCHANGED <<emTexts, emOnProgress, emI, emResults, emProgress, emReturn>>

NextEmbeddings ==
    \/ (EmReturnEmpty /\ UNCHANGED <<pbVars, escVars, agVars, rdVars, rtVars, cnVars, dkVars, vsVars, mcVars, fdVars, ctVars, lqVars>>)
    \/ \E order \in ProviderOrders :
          EmBatchAnswered(order) /\ UNCHANGED <<pbVars, escVars, agVars, rdVars, rtVars, cnVars, dkVars, vsVars, mcVars, fdVars, ctVars, lqVars>>
    \/ (EmBatchFails /\ UNCHANGED <<pbVars, escVars, agVars, rdVars, rtVars, cnVars, dkVars, vsVars, mcVars, fdVars, ctVars, lqVars>>)

\* the other components stay idle
EmbeddingsInit ==
    InitEmbeddings /\ IdlePlaybook /\ IdleEscalation /\ IdleAgent /\
    IdleRedaction /\ IdleRetrieval /\ IdleChunker /\ IdleDesk /\
    IdleVision /\ IdleCases /\ IdleFind /\ IdleCitations /\ IdleQueue

SpecEmbeddings == EmbeddingsInit /\ [][NextEmbeddings]_vars

\* C16: generateEmbeddings on N texts returns exactly N results, result i
\* with index i, text texts[i] and the provider's embedding for texts[i], and
\* no provider call carries more than 100 inputs, also when the provider lists
\* the items of a batch in another order than the inputs.
C16_OneResultPerText ==
    /\ \A c \in 1..Len(emCalls) : emCalls[c].size <= MAX_BATCH_SIZE
    /\ emPhase = "returned" =>
         /\ Len(Val(emReturn)) = Len(emTexts)
         /\ \A i \in 1..Len(Val(emReturn)) :
              /\ Val(emReturn)[i].index = i - 1
              /\ Val(emReturn)[i].text = emTexts[i]
              /\ Val(emReturn)[i].embedding = EmbeddingOf(emTexts[i])

\* C17: when a batch call of generateEmbeddings fails, the whole call rejects
\* with that error: nothing is returned (the results of earlier batches
\* included) and the failed call is the last call sent.
C17_BatchFailureRejects ==
    \A c \in 1..Len(emCalls) :
        emCalls[c].outcome = "throws" =>
            /\ emPhase = "rejected"
            /\ emRejection = Some(ProviderError(emCalls[c].start))
            /\ emReturn = Undef
            /\ c = Len(emCalls)

\* the third batch of the 250-text scenario failed after two batches had
\* been answered
C17_Witness ==
    /\ Len(emTexts) = ScenarioTexts
    /\ Len(emCalls) = 3
    /\ emCalls[3].outcome = "throws"
    /\ Len(emResults) = 2 * MAX_BATCH_SIZE
    /\ emPhase = "rejected"


(***************************************************************************)
(* Chunker (knowledge-base/chunker.ts)                                      *)
(***************************************************************************)
\* chunker.ts 59-61: the defaults of the options
ChunkMaxTokens == 500

ChunkMinTokens == 100

ChunkOverlapTokens == 50

MaxParagraphs == 3

\* chunker.ts 19-21
chunkerEstimateTokens(text) == (Len(text) + 3) \div 4

\* !s.trim()
IsBlank(s) == \A i \in 1..Len(s) : s[i] \in WhitespaceChars

\* String.prototype.slice(-n) for n >= 0 (slice(-0) is slice(0))
SliceLast(text, n) ==
    IF n = 0 \/ n >= Len(text) THEN text
    ELSE SubSeq(text, Len(text) - n + 1, Len(text))

\* the characters of text at the positions that satisfy Keep
KeepChars(text, Keep(_)) ==
    LET tagged == [i \in 1..Len(text) |-> [char |-> text[i], keep |-> Keep(i)]]
        kept == SelectSeq(tagged, LAMBDA t : t.keep)
    IN  [i \in 1..Len(kept) |-> kept[i].char]

\* chunker.ts 67-71: \r\n to \n, tabs to spaces, runs of spaces to one, trim
CleanText(text) ==
    LET noCR == KeepChars(text, LAMBDA i :
                    ~(text[i] = "\r" /\ i < Len(text) /\ text[i + 1] = "\n"))
        noTab == [i \in 1..Len(noCR) |-> IF noCR[i] = "\t" THEN " " ELSE noCR[i]]
        oneSpace == KeepChars(noTab, LAMBDA i :
                        ~(noTab[i] = " " /\ i > 1 /\ noTab[i - 1] = " "))
    IN  Trim(oneSpace)

\* the last position of the run of characters of set that starts at
\* position s (s - 1 when there is none)
RunEnd(text, s, set) ==
    IF s > Len(text) \/ text[s] \notin set THEN s - 1
    ELSE CHOOSE e \in s..Len(text) :
            /\ \A k \in s..e : text[k] \in set
            /\ (e = Len(text) \/ text[e + 1] \notin set)

PunctuationChars == {".", "!", "?"}

\* chunker.ts 26: the last position of the match of
\* /([.!?]+[\s\n]+|[\n]{2,})/ that starts at position s, 0 when there is none
SentenceEndingAt(text, s) ==
    Val({ IF p >= s /\ RunEnd(text, p + 1, WhitespaceChars) > p
          THEN RunEnd(text, p + 1, WhitespaceChars)
          ELSE IF RunEnd(text, s, {"\n"}) >= s + 1 THEN RunEnd(text, s, {"\n"})
          ELSE 0 :
              p \in Some(RunEnd(text, s, PunctuationChars)) })

\* the first position at or after from where a sentence ending starts, 0
\* when there is none
NextSentenceEnding(text, from) ==
    Val({ IF starts = {} THEN 0 ELSE CHOOSE s \in starts : \A o \in starts : s <= o :
              starts \in Some({ s \in from..Len(text) : SentenceEndingAt(text, s) > 0 }) })

\* the piece as a list: trimmed, and dropped when blank
TrimmedPiece(piece) == IF IsBlank(piece) THEN <<>> ELSE <<Trim(piece)>>

RECURSIVE SentencesFrom(_, _)
\* chunker.ts 27-48: the sentences of text from position from on; each part
\* between two endings goes with the ending that follows it
SentencesFrom(text, from) ==
    Val({ IF s = 0 THEN TrimmedPiece(SubSeq(text, from, Len(text)))
          ELSE Val({ TrimmedPiece(SubSeq(text, from, e)) \o SentencesFrom(text, e + 1) :
                        e \in Some(SentenceEndingAt(text, s)) }) :
              s \in Some(NextSentenceEnding(text, from)) })

\* chunker.ts 24-49
splitIntoSentences(text) == SentencesFrom(text, 1)

\* the first position at or after from where a run of two or more newlines
\* starts, 0 when there is none
NextParagraphBreak(text, from) ==
    Val({ IF starts = {} THEN 0 ELSE CHOOSE s \in starts : \A o \in starts : s <= o :
              starts \in Some({ s \in from..(Len(text) - 1) :
                                   text[s] = "\n" /\ text[s + 1] = "\n" }) })

RECURSIVE ParagraphsFrom(_, _)
\* chunker.ts 53: text.split(/\n{2,}/).filter((p) => p.trim()) from position
\* from on
ParagraphsFrom(text, from) ==
    Val({ IF s = 0
          THEN (IF IsBlank(SubSeq(text, from, Len(text))) THEN <<>>
                ELSE <<SubSeq(text, from, Len(text))>>)
          ELSE (IF IsBlank(SubSeq(text, from, s - 1)) THEN <<>>
                ELSE <<SubSeq(text, from, s - 1)>>)
               \o ParagraphsFrom(text, RunEnd(text, s, {"\n"}) + 1) :
              s \in Some(NextParagraphBreak(text, from)) })

\* chunker.ts 52-54
splitIntoParagraphs(text) == ParagraphsFrom(text, 1)

\* chunker.ts 231-239: the longest candidate sentences.slice(i).join(' ')
\* that fits, '' when none does
FittingOverlap(sentences, targetChars) ==
    Val({ IF fits = {} THEN <<>>
          ELSE JoinWords(SubSeq(sentences, CHOOSE i \in fits : \A o \in fits : i <= o,
                                Len(sentences))) :
              fits \in Some({ i \in 1..Len(sentences) :
                                 Len(JoinWords(SubSeq(sentences, i, Len(sentences))))
                                     <= targetChars }) })

\* chunker.ts 222-243
getOverlapText(text, overlapTokens) ==
    LET targetChars == overlapTokens * 4
    IN  IF Len(text) <= targetChars THEN text
        ELSE Val({ IF Len(sentences) > 1
                   THEN Val({ IF overlap # <<>> THEN overlap
                              ELSE SliceLast(text, targetChars) :
                                  overlap \in Some(FittingOverlap(sentences, targetChars)) })
                   ELSE SliceLast(text, targetChars) :
                       sentences \in Some(splitIntoSentences(
                                              SliceLast(text, targetChars * 2))) })

\* TextChunk without its index
Chunk(content, startChar, endChar, tokenEstimate) ==
    [content |-> content, startChar |-> startChar, endChar |-> endChar,
     tokenEstimate |-> tokenEstimate]

\* chunker.ts 143-164: one pass of the loop over the sentences of a large
\* paragraph
AddSentence(ss, sentence, maxTokens, overlapTokens) ==
    IF chunkerEstimateTokens(ss.sentenceChunk) + chunkerEstimateTokens(sentence) > maxTokens
       /\ ~IsBlank(ss.sentenceChunk)
    THEN Val({ [chunks |-> Append(ss.chunks,
                                  Chunk(Trim(ss.sentenceChunk), ss.sentenceStartChar,
                                        ss.charOffset,
                                        chunkerEstimateTokens(ss.sentenceChunk))),
                sentenceChunk |-> overlapText \o <<" ">> \o sentence,
                sentenceStartChar |-> ss.charOffset - Len(overlapText),
                charOffset |-> ss.charOffset + Len(sentence) + 1] :
                   overlapText \in Some(getOverlapText(ss.sentenceChunk, overlapTokens)) })
    ELSE [chunks |-> ss.chunks,
          sentenceChunk |-> ss.sentenceChunk
                            \o (IF ss.sentenceChunk # <<>> THEN <<" ">> ELSE <<>>)
                            \o sentence,
          sentenceStartChar |-> ss.sentenceStartChar,
          charOffset |-> ss.charOffset + Len(sentence) + 1]

RECURSIVE SentenceLoop(_, _, _, _, _)
\* chunker.ts 143-164
SentenceLoop(sentences, i, ss, maxTokens, overlapTokens) ==
    IF i > Len(sentences) THEN ss
    ELSE Val({ SentenceLoop(sentences, i + 1, next, maxTokens, overlapTokens) :
                  next \in Some(AddSentence(ss, sentences[i], maxTokens, overlapTokens)) })

\* chunker.ts 126-170: a paragraph larger than maxTokens
AddLargeParagraph(st, paragraph, maxTokens, overlapTokens) ==
    Val({ Val({ IF ~IsBlank(ss.sentenceChunk)
                THEN [chunks |-> ss.chunks, currentChunk |-> ss.sentenceChunk,
                      currentStartChar |-> ss.sentenceStartChar,
                      charOffset |-> ss.charOffset]
                ELSE [chunks |-> ss.chunks, currentChunk |-> flushed.currentChunk,
                      currentStartChar |-> flushed.currentStartChar,
                      charOffset |-> ss.charOffset] :
                    ss \in Some(SentenceLoop(splitIntoSentences(paragraph), 1,
                                             [chunks |-> flushed.chunks,
                                              sentenceChunk |-> <<>>,
                                              sentenceStartChar |-> flushed.charOffset,
                                              charOffset |-> flushed.charOffset],
                                             maxTokens, overlapTokens)) }) :
              flushed \in Some(IF ~IsBlank(st.currentChunk)
                               THEN [st EXCEPT
                                       !.chunks = Append(st.chunks,
                                           Chunk(Trim(st.currentChunk),
                                                 st.currentStartChar, st.charOffset,
                                                 chunkerEstimateTokens(st.currentChunk))),
                                       !.currentChunk = <<>>]
                               ELSE st) })

\* chunker.ts 121-192: one pass of the loop over the paragraphs
AddParagraph(st, paragraph, maxTokens, overlapTokens) ==
    IF chunkerEstimateTokens(paragraph) > maxTokens
    THEN AddLargeParagraph(st, paragraph, maxTokens, overlapTokens)
    ELSE IF chunkerEstimateTokens(st.currentChunk) + chunkerEstimateTokens(paragraph)
            > maxTokens
    THEN Val({ [chunks |-> IF ~IsBlank(st.currentChunk)
                           THEN Append(st.chunks,
                                       Chunk(Trim(st.currentChunk), st.currentStartChar,
                                             st.charOffset,
                                             chunkerEstimateTokens(st.currentChunk)))
                           ELSE st.chunks,
                currentChunk |-> overlapText \o <<"\n", "\n">> \o paragraph,
                currentStartChar |-> st.charOffset - Len(overlapText),
                charOffset |-> st.charOffset + Len(paragraph) + 2] :
                   overlapText \in Some(getOverlapText(st.currentChunk, overlapTokens)) })
    ELSE [chunks |-> st.chunks,
          currentChunk |-> st.currentChunk
                           \o (IF st.currentChunk # <<>> THEN <<"\n", "\n">> ELSE <<>>)
                           \o paragraph,
          currentStartChar |-> st.currentStartChar,
          charOffset |-> st.charOffset + Len(paragraph) + 2]

RECURSIVE ParagraphLoop(_, _, _, _, _)
\* chunker.ts 121-192
ParagraphLoop(paragraphs, i, st, maxTokens, overlapTokens) ==
    IF i > Len(paragraphs) THEN st
    ELSE Val({ ParagraphLoop(paragraphs, i + 1, next, maxTokens, overlapTokens) :
                  next \in Some(AddParagraph(st, paragraphs[i], maxTokens, overlapTokens)) })

\* chunker.ts 194-218: the last chunk is pushed, merged into the previous
\* chunk when below minTokens, or pushed as the only chunk
LastChunk(st, minTokens) ==
    IF ~IsBlank(st.currentChunk) /\ chunkerEstimateTokens(st.currentChunk) >= minTokens
    THEN Append(st.chunks, Chunk(Trim(st.currentChunk), st.currentStartChar,
                                 st.charOffset, chunkerEstimateTokens(st.currentChunk)))
    ELSE IF ~IsBlank(st.currentChunk) /\ Len(st.chunks) > 0
    THEN Val({ [st.chunks EXCEPT ![Len(st.chunks)] =
                   Chunk(content, st.chunks[Len(st.chunks)].startChar, st.charOffset,
                         chunkerEstimateTokens(content))] :
                   content \in Some(st.chunks[Len(st.chunks)].content \o <<"\n", "\n">>
                                    \o Trim(st.currentChunk)) })
    ELSE IF ~IsBlank(st.currentChunk)
    THEN Append(st.chunks, Chunk(Trim(st.currentChunk), st.currentStartChar,
                                 st.charOffset, chunkerEstimateTokens(st.currentChunk)))
    ELSE st.chunks

\* chunker.ts 108-219
chunkSection(text, maxTokens, minTokens, overlapTokens) ==
    Val({ LastChunk(st, minTokens) :
              st \in Some(ParagraphLoop(splitIntoParagraphs(text), 1,
                                        [chunks |-> <<>>, currentChunk |-> <<>>,
                                         currentStartChar |-> 0, charOffset |-> 0],
                                        maxTokens, overlapTokens)) })

LineTerminators == {"\n", "\r"}

\* position p is the start of a line (the ^ of a multiline pattern)
AtLineStart(text, p) == p = 1 \/ text[p - 1] \in LineTerminators

\* chunker.ts 81: /^#{1,6}\s+/m matches at position p
HeaderStartAt(text, p) ==
    /\ AtLineStart(text, p)
    /\ RunEnd(text, p, {"#"}) - p + 1 \in 1..6
    /\ RunEnd(text, p, {"#"}) < Len(text)
    /\ text[RunEnd(text, p, {"#"}) + 1] \in WhitespaceChars

\* chunker.ts 76-77: /^(#{1,6})\s+(.+)$/gm matches somewhere in the text
HasHeaders(text) ==
    \E p \in 1..Len(text) :
        /\ HeaderStartAt(text, p)
        /\ \E q \in (RunEnd(text, p, {"#"}) + 2)..Len(text) :
              /\ \A k \in (RunEnd(text, p, {"#"}) + 1)..(q - 1) : text[k] \in WhitespaceChars
              /\ text[q] \notin LineTerminators

RECURSIVE SectionsFrom(_, _)
\* chunker.ts 81: cleanText.split(/(?=^#{1,6}\s+)/m).filter((s) => s.trim())
\* from position from on
SectionsFrom(text, from) ==
    Val({ IF starts = {}
          THEN (IF IsBlank(SubSeq(text, from, Len(text))) THEN <<>>
                ELSE <<SubSeq(text, from, Len(text))>>)
          ELSE Val({ (IF IsBlank(SubSeq(text, from, s - 1)) THEN <<>>
                      ELSE <<SubSeq(text, from, s - 1)>>)
                     \o SectionsFrom(text, s) :
                        s \in Some(CHOOSE s \in starts : \A o \in starts : s <= o) }) :
              starts \in Some({ p \in (from + 1)..Len(text) : HeaderStartAt(text, p) }) })

RECURSIVE SectionLoop(_, _, _, _, _)
\* chunker.ts 84-97: the chunks of the sections from section i on, added to
\* chunks
SectionLoop(sections, i, chunks, charOffset, options) ==
    IF i > Len(sections) THEN chunks
    ELSE Val({ SectionLoop(sections, i + 1,
                           chunks \o [k \in 1..Len(sectionChunks) |->
                                         [content |-> sectionChunks[k].content,
                                          index |-> Len(chunks) + k - 1,
                                          startChar |-> charOffset + sectionChunks[k].startChar,
                                          endChar |-> charOffset + sectionChunks[k].endChar,
                                          tokenEstimate |-> sectionChunks[k].tokenEstimate]],
                           charOffset + Len(sections[i]), options) :
                  sectionChunks \in Some(chunkSection(sections[i], options.maxTokens,
                                                      options.minTokens,
                                                      options.overlapTokens)) })

\* chunker.ts 57-105
chunkText(text, options) ==
    Val({ IF cleanText = <<>> THEN <<>>
          ELSE IF HasHeaders(cleanText)
          THEN SectionLoop(SectionsFrom(cleanText, 1), 1, <<>>, 0, options)
          ELSE Val({ [k \in 1..Len(sectionChunks) |->
                         [content |-> sectionChunks[k].content,
                          index |-> k - 1,
                          startChar |-> sectionChunks[k].startChar,
                          endChar |-> sectionChunks[k].endChar,
                          tokenEstimate |-> sectionChunks[k].tokenEstimate]] :
                        sectionChunks \in Some(chunkSection(cleanText, options.maxTokens,
                                                            options.minTokens,
                                                            options.overlapTokens)) }) :
              cleanText \in Some(CleanText(text)) })

ChunkOptions(maxTokens, minTokens, overlapTokens) ==
    [maxTokens |-> maxTokens, minTokens |-> minTokens, overlapTokens |-> overlapTokens]

Par_steps == <<"T", "u", "r", "n", " ", "i", "t", " ", "o", "f", "f", ".", " ", "W", "a", "i", "t", " ", "t", "e", "n", ".", " ", "T", "u", "r", "n", " ", "i", "t", " ", "o", "n", ".">>
Par_cable == <<"C", "h", "e", "c", "k", " ", "t", "h", "e", " ", "c", "a", "b", "l", "e", ".">>
Par_long == <<"T", "h", "i", "s", "i", "s", "a", "v", "e", "r", "y", "l", "o", "n", "g", "s", "e", "n", "t", "e", "n", "c", "e", "w", "i", "t", "h", "o", "u", "t", "b", "r", "e", "a", "k", ".">>
Par_unplug == <<"U", "n", "p", "l", "u", "g", " ", "i", "t", ".">>
Text_headers == <<"#", " ", "S", "e", "t", "u", "p", "\n", "G", "o", ".", "\n", "\n", "#", " ", "U", "s", "e", "\n", "C", "h", "e", "c", "k", " ", "t", "h", "e", " ", "c", "a", "b", "l", "e", ".", " ", "T", "h", "e", "n", " ", "u", "n", "p", "l", "u", "g", " ", "i", "t", " ", "n", "o", "w", ".">>
Text_untidy == <<"C", "h", "e", "c", "k", "\t", "t", "h", "e", " ", " ", "c", "a", "b", "l", "e", ".", "\r", "\n", "\r", "\n", "U", "n", "p", "l", "u", "g", " ", "i", "t", ".", " ", " ">>
Text_blank == <<" ", "\t", " ">>

ParagraphPool == {Par_steps, Par_cable, Par_long, Par_unplug}

RECURSIVE JoinParagraphs(_)
\* the paragraphs with a blank line between them
JoinParagraphs(paragraphs) ==
    IF Len(paragraphs) = 0 THEN <<>>
    ELSE IF Len(paragraphs) = 1 THEN paragraphs[1]
    ELSE paragraphs[1] \o <<"\n", "\n">> \o JoinParagraphs(Tail(paragraphs))

ChunkTexts ==
    { JoinParagraphs(ps) : ps \in UNION { [1..n -> ParagraphPool] : n \in 1..MaxParagraphs } }
    \cup {Text_headers, Text_untidy, Text_blank}

ChunkOptionSets ==
    { ChunkOptions(5, 2, 1), ChunkOptions(5, 5, 1), ChunkOptions(8, 3, 2),
      ChunkOptions(ChunkMaxTokens, ChunkMinTokens, ChunkOverlapTokens) }

InitChunker ==
    /\ cnText \in ChunkTexts
    /\ cnOptions \in { Some(o) : o \in ChunkOptionSets }
    /\ cnPhase = "input"
    /\ cnChunks = <<>>

\* chunker.ts 57-105
ChunkText ==
    /\ cnPhase = "input"
    /\ cnChunks' = chunkText(cnText, Val(cnOptions))
    /\ cnPhase' = "chunked"
    /\ UNCHANGED <<cnText, cnOptions>>

NextChunker ==
    ChunkText /\ UNCHANGED <<pbVars, escVars, agVars, rdVars, rtVars, emVars, dkVars, vsVars, mcVars, fdVars, ctVars, lqVars>>

\* the other components stay idle
ChunkerInit ==
    InitChunker /\ IdlePlaybook /\ IdleEscalation /\ IdleAgent /\
    IdleRedaction /\ IdleRetrieval /\ IdleEmbeddings /\ IdleDesk /\
    IdleVision /\ IdleCases /\ IdleFind /\ IdleCitations /\ IdleQueue

SpecChunker == ChunkerInit /\ [][NextChunker]_vars

\* the chunk is one sentence: it has no sentence ending inside and no blank
\* line
SingleSentence(content) == Len(splitIntoSentences(content)) <= 1

\* C18: every chunk chunkText returns has tokenEstimate <= maxTokens, except
\* a chunk made of a single oversized sentence; this covers chunks that begin
\* with an overlap tail and a last chunk into which a remainder below
\* minTokens was merged.
C18_ChunksWithinMaxTokens ==
    cnPhase = "chunked" =>
        \A k \in 1..Len(cnChunks) :
            \/ cnChunks[k].tokenEstimate <= Val(cnOptions).maxTokens
            \/ SingleSentence(cnChunks[k].content)


(***************************************************************************)
(* Support desk (app/api/cases/[id]/route.ts, app/api/cases/[id]/escalate/  *)
(* route.ts, app/api/twilio/sms/route.ts, app/api/twilio/voice/route.ts,    *)
(* lib/twilio/twiml.ts).  Timeline events are not part of the case record   *)
(* and are left out.                                                        *)
(***************************************************************************)
CaseStatuses == {"open", "pending", "escalated_L2", "escalated_human", "resolved"}

SupportLevels == {"L1", "L2", "L3"}

\* cases/[id]/route.ts 182-188
validTransitions ==
    [from \in CaseStatuses |->
        CASE from = "open" -> {"pending", "resolved", "escalated_L2"}
          [] from = "pending" -> {"open", "resolved", "escalated_L2"}
          [] from = "escalated_L2" -> {"pending", "resolved", "escalated_human"}
          [] from = "escalated_human" -> {"resolved"}
          [] from = "resolved" -> {}]

\* twiml.ts 215
Str_VoiceError ==
    <<"I", "'", "m", " ", "s", "o", "r", "r", "y", ",", " ", "I", " ", "e",
      "n", "c", "o", "u", "n", "t", "e", "r", "e", "d", " ", "a", "n", " ",
      "e", "r", "r", "o", "r", ".", " ", "L", "e", "t", " ", "m", "e", " ",
      "c", "o", "n", "n", "e", "c", "t", " ", "y", "o", "u", " ", "w", "i",
      "t", "h", " ", "a", " ", "h", "u", "m", "a", "n", " ", "s", "u", "p",
      "p", "o", "r", "t", " ", "s", "p", "e", "c", "i", "a", "l", "i", "s",
      "t", ".">>

\* sms/route.ts 185
Str_SmsError ==
    <<"W", "e", "'", "r", "e", " ", "e", "x", "p", "e", "r", "i", "e", "n",
      "c", "i", "n", "g", " ", "t", "e", "c", "h", "n", "i", "c", "a", "l",
      " ", "d", "i", "f", "f", "i", "c", "u", "l", "t", "i", "e", "s", ".",
      " ", "P", "l", "e", "a", "s", "e", " ", "t", "r", "y", " ", "a", "g",
      "a", "i", "n", " ", "l", "a", "t", "e", "r", " ", "o", "r", " ", "c",
      "a", "l", "l", " ", "o", "u", "r", " ", "s", "u", "p", "p", "o", "r",
      "t", " ", "l", "i", "n", "e", ".">>

\* twiml.ts 135
Str_VoiceEscalation ==
    <<"I", "'", "m", " ", "c", "o", "n", "n", "e", "c", "t", "i", "n", "g",
      " ", "y", "o", "u", " ", "w", "i", "t", "h", " ", "a", " ", "h", "u",
      "m", "a", "n", " ", "s", "u", "p", "p", "o", "r", "t", " ", "s", "p",
      "e", "c", "i", "a", "l", "i", "s", "t", ".", " ", "P", "l", "e", "a",
      "s", "e", " ", "h", "o", "l", "d", " ", "w", "h", "i", "l", "e", " ",
      "w", "e", " ", "f", "i", "n", "d", " ", "t", "h", "e", " ", "n", "e",
      "x", "t", " ", "a", "v", "a", "i", "l", "a", "b", "l", "e", " ", "a",
      "g", "e", "n", "t", ".">>

\* sms/route.ts 98
Str_SmsEscalated ==
    <<"Y", "o", "u", "r", " ", "r", "e", "q", "u", "e", "s", "t", " ", "h",
      "a", "s", " ", "b", "e", "e", "n", " ", "e", "s", "c", "a", "l", "a",
      "t", "e", "d", " ", "t", "o", " ", "a", " ", "h", "u", "m", "a", "n",
      " ", "s", "u", "p", "p", "o", "r", "t", " ", "s", "p", "e", "c", "i",
      "a", "l", "i", "s", "t", ".", " ", "T", "h", "e", "y", " ", "w", "i",
      "l", "l", " ", "c", "o", "n", "t", "a", "c", "t", " ", "y", "o", "u",
      " ", "s", "h", "o", "r", "t", "l", "y", ".", " ", "R", "e", "p", "l",
      "y", " ", "'", "S", "T", "A", "T", "U", "S", "'", " ", "t", "o", " ",
      "c", "h", "e", "c", "k", " ", "y", "o", "u", "r", " ", "c", "a", "s",
      "e", " ", "s", "t", "a", "t", "u", "s", ".">>

\* sms/route.ts 172
Str_SmsHumanNotice ==
    <<"\n", "\n", "[", "A", " ", "h", "u", "m", "a", "n", " ", "s", "u", "p",
      "p", "o", "r", "t", " ", "s", "p", "e", "c", "i", "a", "l", "i", "s",
      "t", " ", "w", "i", "l", "l", " ", "c", "o", "n", "t", "a", "c", "t",
      " ", "y", "o", "u", " ", "s", "h", "o", "r", "t", "l", "y", ".", " ",
      "R", "e", "p", "l", "y", " ", "'", "S", "T", "A", "T", "U", "S", "'",
      " ", "t", "o", " ", "c", "h", "e", "c", "k", " ", "y", "o", "u", "r",
      " ", "c", "a", "s", "e", " ", "s", "t", "a", "t", "u", "s", ".", "]">>

\* voice/route.ts 142
Str_Repeat ==
    <<"I", " ", "d", "i", "d", "n", "'", "t", " ", "c", "a", "t", "c", "h",
      " ", "t", "h", "a", "t", ".", " ", "C", "o", "u", "l", "d", " ", "y",
      "o", "u", " ", "p", "l", "e", "a", "s", "e", " ", "r", "e", "p", "e",
      "a", "t", " ", "y", "o", "u", "r", " ", "q", "u", "e", "s", "t", "i",
      "o", "n", "?">>

\* twiml.ts 84
Str_Greeting ==
    <<"W", "e", "l", "c", "o", "m", "e", " ", "t", "o", " ", "T", "e", "c",
      "h", "S", "u", "p", "p", "o", "r", "t", " ", "A", "I", ".", " ", "I",
      "'", "m", " ", "y", "o", "u", "r", " ", "v", "i", "r", "t", "u", "a",
      "l", " ", "a", "s", "s", "i", "s", "t", "a", "n", "t", ".", " ", "P",
      "l", "e", "a", "s", "e", " ", "d", "e", "s", "c", "r", "i", "b", "e",
      " ", "y", "o", "u", "r", " ", "i", "s", "s", "u", "e", " ", "a", "f",
      "t", "e", "r", " ", "t", "h", "e", " ", "t", "o", "n", "e", ",", " ",
      "o", "r", " ", "p", "r", "e", "s", "s", " ", "1", " ", "t", "o", " ",
      "s", "p", "e", "a", "k", " ", "w", "i", "t", "h", " ", "a", " ", "h",
      "u", "m", "a", "n", " ", "a", "g", "e", "n", "t", ".">>

\* twiml.ts 189
Str_Goodbye ==
    <<"T", "h", "a", "n", "k", " ", "y", "o", "u", " ", "f", "o", "r", " ",
      "c", "o", "n", "t", "a", "c", "t", "i", "n", "g", " ", "T", "e", "c",
      "h", "S", "u", "p", "p", "o", "r", "t", " ", "A", "I", ".", " ", "G",
      "o", "o", "d", "b", "y", "e", "!">>

\* sms/route.ts 108-109: the status message, without the case data
Str_CaseStatus ==
    <<"Y", "o", "u", "r", " ", "c", "a", "s", "e", " ", "i", "s", " ", "c",
      "u", "r", "r", "e", "n", "t", "l", "y">>

Str_NoActiveCase ==
    <<"N", "o", " ", "a", "c", "t", "i", "v", "e", " ", "c", "a", "s", "e",
      " ", "f", "o", "u", "n", "d", ".", " ", "S", "e", "n", "d", " ", "a",
      " ", "m", "e", "s", "s", "a", "g", "e", " ", "t", "o", " ", "s", "t",
      "a", "r", "t", " ", "a", " ", "n", "e", "w", " ", "s", "u", "p", "p",
      "o", "r", "t", " ", "c", "o", "n", "v", "e", "r", "s", "a", "t", "i",
      "o", "n", ".">>

\* a message of the tier-1 agent
Str_AgentMessage ==
    <<"P", "l", "e", "a", "s", "e", " ", "r", "e", "s", "t", "a", "r", "t",
      " ", "t", "h", "e", " ", "p", "r", "i", "n", "t", "e", "r", ".">>

Str_human ==
    <<"h", "u", "m", "a", "n">>

Str_agent ==
    <<"a", "g", "e", "n", "t">>

Str_status ==
    <<"s", "t", "a", "t", "u", "s">>

Str_sorry ==
    <<"s", "o", "r", "r", "y">>

Str_apologi ==
    <<"a", "p", "o", "l", "o", "g", "i">>

Body_human ==
    <<" ", "H", "u", "m", "a", "n", " ">>

Body_status ==
    <<"S", "T", "A", "T", "U", "S">>

Body_printer ==
    <<"M", "y", " ", "p", "r", "i", "n", "t", "e", "r", " ", "i", "s", " ",
      "b", "r", "o", "k", "e", "n">>

\* a stored case: the fields the handlers read and write
Case(status, currentLevel) == [status |-> status, currentLevel |-> currentLevel]

\* a TwiML verb with its text or queue name
Verb(verb, arg) == [verb |-> verb, arg |-> arg]

\* the reply of a handler: an HTTP status and, for the webhooks, TwiML verbs
Reply(code, verbs) == [code |-> code, verbs |-> verbs]

\* twiml.ts 34-74 with gatherInput
createSpeechResponse(message) == <<Verb("Gather", <<>>), Verb("Say", message)>>

Str_support == <<"s", "u", "p", "p", "o", "r", "t">>

\* twiml.ts 127-161
createEscalationResponse ==
    <<Verb("Say", Str_VoiceEscalation), Verb("Enqueue", Str_support)>>

\* twiml.ts 210-231
createErrorResponse ==
    <<Verb("Say", Str_VoiceError), Verb("Enqueue", Str_support)>>

\* twiml.ts 184-205
createGoodbye == <<Verb("Say", Str_Goodbye), Verb("Hangup", <<>>)>>

\* the body of a request; the fields a handler does not read are {}
RequestBody(caseId, status, currentLevel, targetLevel, text, digits, callStatus) ==
    [caseId |-> caseId, status |-> status, currentLevel |-> currentLevel,
     targetLevel |-> targetLevel, text |-> text, digits |-> digits,
     callStatus |-> callStatus]

PatchBodies ==
    { RequestBody(Some(1), status, level, Undef, Undef, Undef, Undef) :
        status \in {Undef} \cup { Some(st) : st \in CaseStatuses },
        level \in {Undef, Some("L2")} }

EscalateBodies ==
    { RequestBody(Some(1), Undef, Undef, target, Undef, Undef, Undef) :
        target \in {Undef, Some("L2"), Some("L3")} }

SmsBodies ==
    { RequestBody(Undef, Undef, Undef, Undef, Some(text), Undef, Undef) :
        text \in {Body_human, Body_status, Body_printer} }

VoiceBodies ==
    { RequestBody(Undef, Undef, Undef, Undef, Undef, Some("1"), Some("in-progress")),
      RequestBody(Undef, Undef, Undef, Undef, Undef, Undef, Some("ringing")),
      RequestBody(Some(1), Undef, Undef, Undef, Some(Body_printer), Undef,
                  Some("in-progress")),
      RequestBody(Some(1), Undef, Undef, Undef, Undef, Undef, Some("in-progress")),
      RequestBody(Undef, Undef, Undef, Undef, Undef, Undef, Some("in-progress")) }

\* the part of the L1AgentResponse the webhooks read
AiResponse(shouldEscalate, escalationLevel) ==
    [shouldEscalate |-> shouldEscalate, escalationLevel |-> escalationLevel,
     message |-> Str_AgentMessage]

AiResponses ==
    { AiResponse(FALSE, Undef), AiResponse(TRUE, Undef), AiResponse(TRUE, Some("L2")),
      AiResponse(TRUE, Some("L3")) }

Slots == {1, 2}

\* a request in a slot
Request(handler, pc, body, caseId, openCase, ai, caught, reply) ==
    [handler |-> handler, pc |-> pc, body |-> body, caseId |-> caseId,
     openCase |-> openCase, ai |-> ai, caught |-> caught, reply |-> reply]

NoRequest == Request("none", "idle", {}, Undef, FALSE, Undef, FALSE, Undef)

\* the request of slot r finishes with this reply
Finish(r, reply) ==
    [dkReq EXCEPT ![r].pc = "done", ![r].reply = Some(reply)]

\* firebase/cases updateCase, caseRef.update: the fields given are written
UpdateCase(cases, caseId, status, currentLevel) ==
    [cases EXCEPT ![caseId] =
        Case(IF status # Undef THEN Val(status) ELSE @.status,
             IF currentLevel # Undef THEN Val(currentLevel) ELSE @.currentLevel)]

\* the store holds no case or one case in any status and level
InitDesk ==
    /\ dkCases \in {<<>>} \cup { <<Case(status, level)>> :
                                   status \in CaseStatuses, level \in SupportLevels }
    /\ dkL3Queue = <<>>
    /\ dkReq = [r \in Slots |-> NoRequest]

\* a request arrives
Receive(r, handler, body) ==
    /\ dkReq[r].pc = "idle"
    /\ dkReq' = [dkReq EXCEPT ![r] = Request(handler, "start", body, Undef, FALSE,
                                             Undef, FALSE, Undef)]
    /\ UNCHANGED <<dkCases, dkL3Queue>>

\* cases/[id]/route.ts 191-231: read the case, validate the transition
PatchRead(r) ==
    /\ dkReq[r].handler = "patch" /\ dkReq[r].pc = "start"
    /\ LET id == Val(dkReq[r].body.caseId)
           status == dkReq[r].body.status
       IN  dkReq' =
             IF id > Len(dkCases) THEN Finish(r, Reply(404, <<>>))
             ELSE IF /\ status # Undef
                     /\ Val(status) # dkCases[id].status
                     /\ Val(status) \notin validTransitions[dkCases[id].status]
             THEN Finish(r, Reply(400, <<>>))
             ELSE [dkReq EXCEPT ![r].pc = "update", ![r].caseId = Some(id)]
    /\ UNCHANGED <<dkCases, dkL3Queue>>

\* cases/[id]/route.ts 233-261: the allowed fields of the body are written
PatchUpdate(r) ==
    /\ dkReq[r].handler = "patch" /\ dkReq[r].pc = "update"
    /\ dkCases' = UpdateCase(dkCases, Val(dkReq[r].caseId), dkReq[r].body.status,
                             dkReq[r].body.currentLevel)
    /\ dkReq' = Finish(r, Reply(200, <<>>))
    /\ UNCHANGED dkL3Queue

\* cases/[id]/escalate/route.ts 15-64: validate the body, read the case,
\* validate the escalation path by the current level
EscalateRead(r) ==
    /\ dkReq[r].handler = "escalate" /\ dkReq[r].pc = "start"
    /\ LET id == Val(dkReq[r].body.caseId)
           targetLevel == dkReq[r].body.targetLevel
       IN  dkReq' =
             IF targetLevel = Undef THEN Finish(r, Reply(400, <<>>))
             ELSE IF id > Len(dkCases) THEN Finish(r, Reply(404, <<>>))
             ELSE IF targetLevel = Some("L2") /\ dkCases[id].currentLevel # "L1"
             THEN Finish(r, Reply(400, <<>>))
             ELSE IF targetLevel = Some("L3") /\ dkCases[id].currentLevel \notin {"L1", "L2"}
             THEN Finish(r, Reply(400, <<>>))
             ELSE [dkReq EXCEPT ![r].pc = "update", ![r].caseId = Some(id)]
    /\ UNCHANGED <<dkCases, dkL3Queue>>

\* cases/[id]/escalate/route.ts 75-80, 97-111: write the new status and
\* level, add the case to the L3 queue
EscalateUpdate(r) ==
    /\ dkReq[r].handler = "escalate" /\ dkReq[r].pc = "update"
    /\ LET id == Val(dkReq[r].caseId)
           targetLevel == Val(dkReq[r].body.targetLevel)
       IN  /\ dkCases' = UpdateCase(dkCases, id,
                                    Some(IF targetLevel = "L3" THEN "escalated_human"
                                         ELSE "escalated_L2"),
                                    Some(targetLevel))
           /\ dkL3Queue' = IF targetLevel = "L3" THEN Append(dkL3Queue, id)
                           ELSE dkL3Queue
    /\ dkReq' = Finish(r, Reply(200, <<>>))

\* the catch of the JSON handlers: status 500
JsonHandlerThrows(r) ==
    /\ dkReq[r].handler \in {"patch", "escalate"}
    /\ dkReq[r].pc \in {"start", "update"}
    /\ dkReq' = [Finish(r, Reply(500, <<>>)) EXCEPT ![r].caught = TRUE]
    /\ UNCHANGED <<dkCases, dkL3Queue>>

\* sms/route.ts 31-33: the first open or pending case of the phone number
OpenCaseOf(cases) ==
    LET open == { id \in 1..Len(cases) : cases[id].status \in {"open", "pending"} }
    IN  IF open = {} THEN Undef
        ELSE Some(CHOOSE id \in open : \A o \in open : id <= o)

\* sms/route.ts 26-78: find the open case of the sender or create a case
SmsFindCase(r) ==
    /\ dkReq[r].handler = "sms" /\ dkReq[r].pc = "start"
    /\ IF OpenCaseOf(dkCases) # Undef
       THEN /\ dkCases' = dkCases
            /\ dkReq' = [dkReq EXCEPT ![r].pc = "command",
                                      ![r].caseId = OpenCaseOf(dkCases),
                                      ![r].openCase = TRUE]
       ELSE /\ dkCases' = Append(dkCases, Case("open", "L1"))
            /\ dkReq' = [dkReq EXCEPT ![r].pc = "command",
                                      ![r].caseId = Some(Len(dkCases) + 1)]
    /\ UNCHANGED dkL3Queue

\* sms/route.ts 81, 105: Body.toLowerCase().trim()
SmsCommandOf(body) == Trim(ToLowerCase(Val(body.text)))

\* sms/route.ts 80-114: the commands 'human' / 'agent' and 'status'
SmsCommand(r) ==
    /\ dkReq[r].handler = "sms" /\ dkReq[r].pc = "command"
    /\ IF SmsCommandOf(dkReq[r].body) \in {Str_human, Str_agent}
       THEN /\ dkCases' = UpdateCase(dkCases, Val(dkReq[r].caseId),
                                     Some("escalated_human"), Some("L3"))
            /\ dkReq' = Finish(r, Reply(200, <<Verb("Message", Str_SmsEscalated)>>))
       ELSE IF SmsCommandOf(dkReq[r].body) = Str_status
       THEN /\ dkCases' = dkCases
            /\ dkReq' = Finish(r, Reply(200,
                             <<Verb("Message", IF dkReq[r].openCase THEN Str_CaseStatus
                                               ELSE Str_NoActiveCase)>>))
       ELSE /\ dkCases' = dkCases
            /\ dkReq' = [dkReq EXCEPT ![r].pc = "agent"]
    /\ UNCHANGED dkL3Queue

\* sms/route.ts 116-141: the tier-1 agent returns
SmsAgentReturns(r, ai) ==
    /\ dkReq[r].handler = "sms" /\ dkReq[r].pc = "agent"
    /\ dkReq' = [dkReq EXCEPT ![r].pc = "reply", ![r].ai = Some(ai)]
    /\ UNCHANGED <<dkCases, dkL3Queue>>

\* sms/route.ts 143-179: write the escalation, build the reply
SmsReply(r) ==
    /\ dkReq[r].handler = "sms" /\ dkReq[r].pc = "reply"
    /\ LET ai == Val(dkReq[r].ai)
       IN  /\ dkCases' =
                IF ai.shouldEscalate
                THEN UpdateCase(dkCases, Val(dkReq[r].caseId),
                                Some(IF ai.escalationLevel = Some("L3")
                                     THEN "escalated_human" ELSE "escalated_L2"),
                                IF ai.escalationLevel # Undef THEN ai.escalationLevel
                                ELSE Some("L2"))
                ELSE dkCases
           /\ dkReq' = Finish(r, Reply(200,
                  <<Verb("Message",
                         IF ai.shouldEscalate /\ ai.escalationLevel = Some("L3")
                         THEN ai.message \o Str_SmsHumanNotice ELSE ai.message)>>))
    /\ UNCHANGED dkL3Queue

\* sms/route.ts 180-191: an exception of the turn is caught
SmsThrows(r) ==
    /\ dkReq[r].handler = "sms"
    /\ dkReq[r].pc \in {"start", "command", "agent", "reply"}
    /\ dkReq' = [Finish(r, Reply(200, <<Verb("Message", Str_SmsError)>>))
                    EXCEPT ![r].caught = TRUE]
    /\ UNCHANGED <<dkCases, dkL3Queue>>

\* voice/route.ts 18-79, 137-153: the branches that answer without the agent
VoiceStart(r) ==
    /\ dkReq[r].handler = "voice" /\ dkReq[r].pc = "start"
    /\ LET body == dkReq[r].body
       IN  IF body.digits = Some("1")
           THEN /\ dkReq' = Finish(r, Reply(200, createEscalationResponse))
                /\ dkCases' = dkCases
           ELSE IF body.caseId = Undef /\ body.callStatus = Some("ringing")
           THEN /\ dkCases' = Append(dkCases, Case("open", "L1"))
                /\ dkReq' = [Finish(r, Reply(200, createSpeechResponse(Str_Greeting)))
                                EXCEPT ![r].caseId = Some(Len(dkCases) + 1)]
           ELSE IF body.text # Undef /\ body.caseId # Undef
           THEN /\ dkReq' = [dkReq EXCEPT ![r].pc = "agent", ![r].caseId = body.caseId]
                /\ dkCases' = dkCases
           ELSE IF body.caseId # Undef
           THEN /\ dkReq' = Finish(r, Reply(200, createSpeechResponse(Str_Repeat)))
                /\ dkCases' = dkCases
           ELSE /\ dkReq' = Finish(r, Reply(200, createGoodbye))
                /\ dkCases' = dkCases
    /\ UNCHANGED dkL3Queue

\* voice/route.ts 81-135: the tier-1 agent returns
VoiceAgentReturns(r, ai) ==
    /\ dkReq[r].handler = "voice" /\ dkReq[r].pc = "agent"
    /\ dkReq' = [Finish(r, Reply(200,
                     IF ai.shouldEscalate /\ ai.escalationLevel = Some("L3")
                     THEN createEscalationResponse
                     ELSE createSpeechResponse(ai.message)))
                    EXCEPT ![r].ai = Some(ai)]
    /\ UNCHANGED <<dkCases, dkL3Queue>>

\* voice/route.ts 154-159: an exception of the turn is caught
VoiceThrows(r) ==
    /\ dkReq[r].handler = "voice"
    /\ dkReq[r].pc \in {"start", "agent"}
    /\ dkReq' = [Finish(r, Reply(200, createErrorResponse)) EXCEPT ![r].caught = TRUE]
    /\ UNCHANGED <<dkCases, dkL3Queue>>

NextDesk ==
    \/ \E r \in Slots, body \in PatchBodies :
          Receive(r, "patch", body)
          /\ UNCHANGED <<pbVars, escVars, agVars, rdVars, rtVars, emVars, cnVars, vsVars, mcVars, fdVars, ctVars, lqVars>>
    \/ \E r \in Slots, body \in EscalateBodies :
          Receive(r, "escalate", body)
          /\ UNCHANGED <<pbVars, escVars, agVars, rdVars, rtVars, emVars, cnVars, vsVars, mcVars, fdVars, ctVars, lqVars>>
    \/ \E r \in Slots, body \in SmsBodies :
          Receive(r, "sms", body)
          /\ UNCHANGED <<pbVars, escVars, agVars, rdVars, rtVars, emVars, cnVars, vsVars, mcVars, fdVars, ctVars, lqVars>>
    \/ \E r \in Slots, body \in VoiceBodies :
          Receive(r, "voice", body)
          /\ UNCHANGED <<pbVars, escVars, agVars, rdVars, rtVars, emVars, cnVars, vsVars, mcVars, fdVars, ctVars, lqVars>>
    \/ \E r \in Slots :
          PatchRead(r)
          /\ UNCHANGED <<pbVars, escVars, agVars, rdVars, rtVars, emVars, cnVars, vsVars, mcVars, fdVars, ctVars, lqVars>>
    \/ \E r \in Slots :
          PatchUpdate(r)
          /\ UNCHANGED <<pbVars, escVars, agVars, rdVars, rtVars, emVars, cnVars, vsVars, mcVars, fdVars, ctVars, lqVars>>
    \/ \E r \in Slots :
          EscalateRead(r)
          /\ UNCHANGED <<pbVars, escVars, agVars, rdVars, rtVars, emVars, cnVars, vsVars, mcVars, fdVars, ctVars, lqVars>>
    \/ \E r \in Slots :
          EscalateUpdate(r)
          /\ UNCHANGED <<pbVars, escVars, agVars, rdVars, rtVars, emVars, cnVars, vsVars, mcVars, fdVars, ctVars, lqVars>>
    \/ \E r \in Slots :
          JsonHandlerThrows(r)
          /\ UNCHANGED <<pbVars, escVars, agVars, rdVars, rtVars, emVars, cnVars, vsVars, mcVars, fdVars, ctVars, lqVars>>
    \/ \E r \in Slots :
          SmsFindCase(r)
          /\ UNCHANGED <<pbVars, escVars, agVars, rdVars, rtVars, emVars, cnVars, vsVars, mcVars, fdVars, ctVars, lqVars>>
    \/ \E r \in Slots :
          SmsCommand(r)
          /\ UNCHANGED <<pbVars, escVars, agVars, rdVars, rtVars, emVars, cnVars, vsVars, mcVars, fdVars, ctVars, lqVars>>
    \/ \E r \in Slots, ai \in AiResponses :
          SmsAgentReturns(r, ai)
          /\ UNCHANGED <<pbVars, escVars, agVars, rdVars, rtVars, emVars, cnVars, vsVars, mcVars, fdVars, ctVars, lqVars>>
    \/ \E r \in Slots :
          SmsReply(r)
          /\ UNCHANGED <<pbVars, escVars, agVars, rdVars, rtVars, emVars, cnVars, vsVars, mcVars, fdVars, ctVars, lqVars>>
    \/ \E r \in Slots :
          SmsThrows(r)
          /\ UNCHANGED <<pbVars, escVars, agVars, rdVars, rtVars, emVars, cnVars, vsVars, mcVars, fdVars, ctVars, lqVars>>
    \/ \E r \in Slots :
          VoiceStart(r)
          /\ UNCHANGED <<pbVars, escVars, agVars, rdVars, rtVars, emVars, cnVars, vsVars, mcVars, fdVars, ctVars, lqVars>>
    \/ \E r \in Slots, ai \in AiResponses :
          VoiceAgentReturns(r, ai)
          /\ UNCHANGED <<pbVars, escVars, agVars, rdVars, rtVars, emVars, cnVars, vsVars, mcVars, fdVars, ctVars, lqVars>>
    \/ \E r \in Slots :
          VoiceThrows(r)
          /\ UNCHANGED <<pbVars, escVars, agVars, rdVars, rtVars, emVars, cnVars, vsVars, mcVars, fdVars, ctVars, lqVars>>

\* the other components stay idle
DeskInit ==
    InitDesk /\ IdlePlaybook /\ IdleEscalation /\ IdleAgent /\
    IdleRedaction /\ IdleRetrieval /\ IdleEmbeddings /\ IdleChunker /\
    IdleVision /\ IdleCases /\ IdleFind /\ IdleCitations /\ IdleQueue

SpecDesk == DeskInit /\ [][NextDesk]_vars

\* C19: every change of a case's stored status made by a request handler
\* follows the transition table: a resolved case never changes status again
\* and a case never goes from open or pending directly to escalated_human,
\* also when two requests for the same case interleave.
C19_StatusChangesFollowTable ==
    [][\A id \in 1..Len(dkCases) :
          dkCases'[id].status # dkCases[id].status
              => dkCases'[id].status \in validTransitions[dkCases[id].status]]_vars

\* the reply says sorry
IsApology(reply) ==
    \E v \in 1..Len(reply.verbs) :
        /\ reply.verbs[v].verb \in {"Say", "Message"}
        /\ \/ Includes(ToLowerCase(reply.verbs[v].arg), Str_sorry)
           \/ Includes(ToLowerCase(reply.verbs[v].arg), Str_apologi)

\* the customer is on a path to a human queue: the reply puts the call in a
\* queue, or the case of the turn is escalated to a human or in the L3 queue
OnPathToHuman(request) ==
    \/ \E v \in 1..Len(Val(request.reply).verbs) : Val(request.reply).verbs[v].verb = "Enqueue"
    \/ /\ request.caseId # Undef
       /\ Val(request.caseId) <= Len(dkCases)
       /\ \/ dkCases[Val(request.caseId)].status = "escalated_human"
          \/ \E q \in 1..Len(dkL3Queue) : dkL3Queue[q] = Val(request.caseId)

\* C20: whenever the voice or the SMS webhook catches an exception raised
\* while handling a turn, the reply sent to the customer is a generic apology
\* that also puts the customer on a path to a human queue.
C20_FallbackApologyAndHumanPath ==
    \A r \in DOMAIN dkReq :
        (dkReq[r].handler \in {"voice", "sms"} /\ dkReq[r].caught) =>
            /\ IsApology(Val(dkReq[r].reply))
            /\ OnPathToHuman(dkReq[r])

(***************************************************************************)
(* VisionScreen sessions                                                   *)
(***************************************************************************)

\* session.ts 35: a session expires 15 minutes after its creation
SESSION_EXPIRY_MINUTES == 15

\* the clock is followed up to this minute
MaxNow == 16

\* the tenants the requests name, and the case id their cases share
TenantIds == {"acme", "globex"}
CaseIds == {"case-1"}

\* the amounts of time that pass between two steps of the handlers
ClockSteps == {SESSION_EXPIRY_MINUTES, SESSION_EXPIRY_MINUTES + 1}

\* the requests that are handled at the same time
VsSlots == {1, 2, 3}

\* session.ts 65-80: the stored session (the fields a handler reads again)
Session(tenantId, caseId, status, expiresAt, startedAt, endedAt) ==
    [tenantId |-> tenantId, caseId |-> caseId, status |-> status,
     expiresAt |-> expiresAt, startedAt |-> startedAt, endedAt |-> endedAt]

\* a request and the position of its handler
VsRequest(handler, pc, tenantId, caseId, phone, token, action, session, reply) ==
    [handler |-> handler, pc |-> pc, tenantId |-> tenantId, caseId |-> caseId,
     phone |-> phone, token |-> token, action |-> action, session |-> session,
     reply |-> reply]

VsNoRequest == VsRequest("none", "idle", Undef, Undef, FALSE, 0, "", {}, Undef)

\* the handler of slot r returns the response with this status code, and
\* its locals are gone
VsFinish(r, code) ==
    [vsReq EXCEPT ![r] = VsRequest(@.handler, "done", Undef, Undef, FALSE, 0, "",
                                   {}, Some(code))]

\* session.ts 229-236 isSessionValid, on the session as it was read
isSessionValid(session, now) ==
    IF session.status = "ended" \/ session.status = "expired" THEN FALSE
    ELSE now < session.expiresAt

\* session.ts 172-198 updateSessionStatus: the status and its timestamp are
\* written to the document, whatever the document holds
updateSessionStatus(sessions, sessionId, status, now) ==
    [sessions EXCEPT
        ![sessionId].status = status,
        ![sessionId].startedAt = IF status = "active" THEN Some(now) ELSE @,
        ![sessionId].endedAt = IF status \in {"ended", "expired"} THEN Some(now) ELSE @]

\* session.ts 251-254: the ids of the pending or active sessions of a case
getActiveSessionsForCase(sessions, tenantId, caseId) ==
    { id \in DOMAIN sessions :
        /\ sessions[id].tenantId = tenantId
        /\ sessions[id].caseId = caseId
        /\ sessions[id].status \in {"pending", "active"} }

\* session.ts 287-290: the ids of the pending or active sessions of a tenant
\* whose expiry time has passed
ExpiredSessions(sessions, tenantId, now) ==
    { id \in DOMAIN sessions :
        /\ sessions[id].tenantId = tenantId
        /\ sessions[id].status \in {"pending", "active"}
        /\ sessions[id].expiresAt < now }

InitVision ==
    /\ vsSessions = <<>>
    /\ vsNow = 0
    /\ vsTimeline = {}
    /\ vsReq = [r \in VsSlots |-> VsNoRequest]

\* time passes
VsTick(step) ==
    /\ vsNow + step <= MaxNow
    /\ vsNow' = vsNow + step
    /\ UNCHANGED <<vsSessions, vsTimeline, vsReq>>

\* part_012 16-35: POST /api/visionscreen/session arrives; tenantId and caseId
\* are required
VsReceiveCreate(r, tenantId, caseId, phone) ==
    /\ vsReq[r].pc = "idle"
    /\ vsReq' = [vsReq EXCEPT ![r] =
            IF tenantId = Undef \/ caseId = Undef
            THEN VsRequest("create", "done", Undef, Undef, FALSE, 0, "", {}, Some(400))
            ELSE VsRequest("create", "check", tenantId, caseId, phone, 0, "", {}, Undef)]
    /\ UNCHANGED <<vsSessions, vsNow, vsTimeline>>

\* part_012 37-47: an existing pending or active session of the case is
\* returned instead of a new one
VsCheckActive(r) ==
    /\ vsReq[r].handler = "create" /\ vsReq[r].pc = "check"
    /\ LET activeSessions == getActiveSessionsForCase(vsSessions,
                                 Val(vsReq[r].tenantId), Val(vsReq[r].caseId))
       IN  IF activeSessions # {}
           THEN vsReq' = VsFinish(r, 200)
           ELSE vsReq' = [vsReq EXCEPT ![r].pc = "create"]
    /\ UNCHANGED <<vsSessions, vsNow, vsTimeline>>

\* part_012 49-56, session.ts 49-93 createVisionScreenSession: a pending
\* session is added to the tenant's collection
VsCreate(r) ==
    /\ vsReq[r].handler = "create" /\ vsReq[r].pc = "create"
    /\ vsSessions' = Append(vsSessions,
            Session(Val(vsReq[r].tenantId), Val(vsReq[r].caseId), "pending",
                    vsNow + SESSION_EXPIRY_MINUTES, Undef, Undef))
    /\ vsReq' = [vsReq EXCEPT ![r].pc = "timeline",
                              ![r].session = {Len(vsSessions) + 1}]
    /\ UNCHANGED <<vsNow, vsTimeline>>

\* part_012 58-107: the timeline event is added; with a customer phone the
\* SMS invitation is sent and logged, and a failure of either is swallowed
VsLogAndInvite(r, invite) ==
    /\ vsReq[r].handler = "create" /\ vsReq[r].pc = "timeline"
    /\ invite \in (IF vsReq[r].phone THEN {"sent", "sms throws"} ELSE {"none"})
    /\ vsTimeline' = vsTimeline
            \cup { <<Val(vsReq[r].session), "visionscreen_started">> }
            \cup (IF invite = "sent" THEN { <<Val(vsReq[r].session), "sms_sent">> }
                  ELSE {})
    /\ vsReq' = VsFinish(r, 200)
    /\ UNCHANGED <<vsSessions, vsNow>>

\* voice/route.ts 243-254: PATCH /api/visionscreen/[token] arrives
VsReceivePatch(r, token, action) ==
    /\ vsReq[r].pc = "idle"
    /\ vsReq' = [vsReq EXCEPT ![r] =
            VsRequest("patch", "lookup", Undef, Undef, FALSE, token, action, {}, Undef)]
    /\ UNCHANGED <<vsSessions, vsNow, vsTimeline>>

\* voice/route.ts 256-270, 295-300: the session is read by its token and
\* its validity is judged on what was read
VsLookup(r) ==
    /\ vsReq[r].handler = "patch" /\ vsReq[r].pc = "lookup"
    /\ LET token == vsReq[r].token
       IN  vsReq' =
             IF token \notin DOMAIN vsSessions THEN VsFinish(r, 404)
             ELSE IF ~isSessionValid(vsSessions[token], vsNow) THEN VsFinish(r, 410)
             ELSE IF vsReq[r].action \notin {"join", "end"} THEN VsFinish(r, 400)
             ELSE [vsReq EXCEPT ![r].pc = "update", ![r].session = {token}]
    /\ UNCHANGED <<vsSessions, vsNow, vsTimeline>>

\* voice/route.ts 272-294: join marks the session active, end marks it ended
VsUpdate(r) ==
    /\ vsReq[r].handler = "patch" /\ vsReq[r].pc = "update"
    /\ vsSessions' = updateSessionStatus(vsSessions, Val(vsReq[r].session),
            IF vsReq[r].action = "join" THEN "active" ELSE "ended", vsNow)
    /\ vsReq' = VsFinish(r, 200)
    /\ UNCHANGED <<vsNow, vsTimeline>>

\* session.ts 279-290 cleanupExpiredSessions is called for a tenant and
\* queries the sessions to expire
VsCleanupQuery(r, tenantId) ==
    /\ vsReq[r].pc = "idle"
    /\ vsReq' = [vsReq EXCEPT ![r] =
            VsRequest("cleanup", "commit", Some(tenantId), Undef, FALSE, 0, "",
                      ExpiredSessions(vsSessions, tenantId, vsNow), Undef)]
    /\ UNCHANGED <<vsSessions, vsNow, vsTimeline>>

\* session.ts 292-301: the batch marks every session of the query expired
VsCleanupCommit(r) ==
    /\ vsReq[r].handler = "cleanup" /\ vsReq[r].pc = "commit"
    /\ vsSessions' = [id \in DOMAIN vsSessions |->
            IF id \in vsReq[r].session
            THEN [vsSessions[id] EXCEPT !.status = "expired", !.endedAt = Some(vsNow)]
            ELSE vsSessions[id]]
    /\ vsReq' = VsFinish(r, Cardinality(vsReq[r].session))
    /\ UNCHANGED <<vsNow, vsTimeline>>

\* part_012 108-117, voice/route.ts 301-307: a store call of a route throws
\* and the route answers 500; cleanupExpiredSessions rejects
VsThrows(r) ==
    /\ vsReq[r].pc \in {"check", "create", "timeline", "lookup", "update", "commit"}
    /\ vsReq' = VsFinish(r, 500)
    /\ UNCHANGED <<vsSessions, vsNow, vsTimeline>>

NextVision ==
    \/ /\ \E step \in ClockSteps : VsTick(step)
       /\ UNCHANGED <<pbVars, escVars, agVars, rdVars, rtVars, emVars, cnVars, dkVars, mcVars, fdVars, ctVars, lqVars>>
    \/ /\ \E r \in VsSlots, tenantId \in {Undef} \cup {Some(t) : t \in TenantIds},
             caseId \in {Undef} \cup {Some(c) : c \in CaseIds}, phone \in BOOLEAN :
                VsReceiveCreate(r, tenantId, caseId, phone)
       /\ UNCHANGED <<pbVars, escVars, agVars, rdVars, rtVars, emVars, cnVars, dkVars, mcVars, fdVars, ctVars, lqVars>>
    \/ /\ \E r \in VsSlots : VsCheckActive(r)
       /\ UNCHANGED <<pbVars, escVars, agVars, rdVars, rtVars, emVars, cnVars, dkVars, mcVars, fdVars, ctVars, lqVars>>
    \/ /\ \E r \in VsSlots : VsCreate(r)
       /\ UNCHANGED <<pbVars, escVars, agVars, rdVars, rtVars, emVars, cnVars, dkVars, mcVars, fdVars, ctVars, lqVars>>
    \/ /\ \E r \in VsSlots, invite \in {"none", "sent", "sms throws"} :
                VsLogAndInvite(r, invite)
       /\ UNCHANGED <<pbVars, escVars, agVars, rdVars, rtVars, emVars, cnVars, dkVars, mcVars, fdVars, ctVars, lqVars>>
    \/ /\ \E r \in VsSlots, token \in 1..2, action \in {"join", "end", "pause"} :
                VsReceivePatch(r, token, action)
       /\ UNCHANGED <<pbVars, escVars, agVars, rdVars, rtVars, emVars, cnVars, dkVars, mcVars, fdVars, ctVars, lqVars>>
    \/ /\ \E r \in VsSlots : VsLookup(r)
       /\ UNCHANGED <<pbVars, escVars, agVars, rdVars, rtVars, emVars, cnVars, dkVars, mcVars, fdVars, ctVars, lqVars>>
    \/ /\ \E r \in VsSlots : VsUpdate(r)
       /\ UNCHANGED <<pbVars, escVars, agVars, rdVars, rtVars, emVars, cnVars, dkVars, mcVars, fdVars, ctVars, lqVars>>
    \/ /\ \E r \in VsSlots, tenantId \in TenantIds : VsCleanupQuery(r, tenantId)
       /\ UNCHANGED <<pbVars, escVars, agVars, rdVars, rtVars, emVars, cnVars, dkVars, mcVars, fdVars, ctVars, lqVars>>
    \/ /\ \E r \in VsSlots : VsCleanupCommit(r)
       /\ UNCHANGED <<pbVars, escVars, agVars, rdVars, rtVars, emVars, cnVars, dkVars, mcVars, fdVars, ctVars, lqVars>>
    \/ /\ \E r \in VsSlots : VsThrows(r)
       /\ UNCHANGED <<pbVars, escVars, agVars, rdVars, rtVars, emVars, cnVars, dkVars, mcVars, fdVars, ctVars, lqVars>>

VisionInit ==
    InitVision /\ IdlePlaybook /\ IdleEscalation /\ IdleAgent /\
    IdleRedaction /\ IdleRetrieval /\ IdleEmbeddings /\ IdleChunker /\
    IdleDesk /\ IdleCases /\ IdleFind /\ IdleCitations /\ IdleQueue

SpecVision == VisionInit /\ [][NextVision]_vars

\* the order of the statuses: pending, then active, then ended or expired
StatusRank(status) ==
    CASE status = "pending" -> 0
      [] status = "active" -> 1
      [] OTHER -> 2

\* C21: the status of a session only moves along pending -> active ->
\* ended|expired: no step moves a session back, and an ended or expired
\* session keeps its status, however join, end and cleanup requests interleave
C21_StatusOnlyMovesForward ==
    [][\A id \in DOMAIN vsSessions :
          \/ vsSessions'[id].status = vsSessions[id].status
          \/ /\ StatusRank(vsSessions[id].status) < StatusRank(vsSessions'[id].status)
             /\ vsSessions[id].status \notin {"ended", "expired"}]_vars

\* C30: at most one pending or active session exists for a tenant's case
C30_OneLiveSessionPerCase ==
    \A tenantId \in TenantIds, caseId \in CaseIds :
        Cardinality(getActiveSessionsForCase(vsSessions, tenantId, caseId)) <= 1

(***************************************************************************)
(* Terminal outcomes and termination of a playbook execution               *)
(***************************************************************************)
\* C22: once the outcome of an execution is resolved or escalated, a further
\* executeStep call leaves currentStepId, stepAttempts, completedSteps,
\* failedSteps and outcome as they were
C22_TerminalOutcomeFrozen ==
    [][(state # Undef /\ isPlaybookComplete(Val(state)) /\ state' # Undef) =>
          /\ Val(state').currentStepId = Val(state).currentStepId
          /\ Val(state').stepAttempts = Val(state).stepAttempts
          /\ Val(state').completedSteps = Val(state).completedSteps
          /\ Val(state').failedSteps = Val(state).failedSteps
          /\ Val(state').outcome = Val(state).outcome]_vars

\* C26: after an executeStep call that returned shouldEscalate = true the
\* outcome of the execution state is escalated, so isPlaybookComplete holds
C26_EscalationSetsOutcome ==
    (calls > 0 /\ result.shouldEscalate) =>
        /\ Val(state).outcome = "escalated"
        /\ isPlaybookComplete(Val(state))

\* every executeStep call of the execution reported success (each success
\* appends to completedSteps, nothing else does)
OnlySuccesses == state # Undef /\ Len(Val(state).completedSteps) = calls

\* C28: an execution of a playbook accepted by validatePlaybook in which
\* every call reports success is resolved after at most as many calls as the
\* playbook has steps
C28_ValidatedPlaybookTerminates ==
    (/\ validatePlaybook(playbook).valid
     /\ OnlySuccesses
     /\ calls >= Len(playbook.steps))
        => Val(state).outcome = "resolved"

(***************************************************************************)
(* Several cases running one registered playbook                           *)
(***************************************************************************)

\* the cases that run the playbook
RunningCases == {"case-a", "case-b"}

\* executeStep calls explored per case
MaxCallsPerCase == 2

\* the playbooks that get registered: accepted by validatePlaybook, one or
\* two steps, every shape of the references
RegisteredPlaybooks ==
    { pb \in ShapedPlaybooks :
        /\ validatePlaybook(pb).valid
        /\ \A i \in 1..Len(pb.steps) :
              /\ pb.steps[i].escalateOnFailure = Undef
              /\ pb.steps[i].maxAttempts \in {Undef, Some(1)}
        /\ Len(pb.steps) = 2 => pb.steps[1].nextOnSuccess = Some("s2") }

\* the variables object of a playbook that declares variables
PlaybookVariables == [product |-> "router"]

\* a mutable object: what it is and what it holds
Object(kind, value) == [kind |-> kind, value |-> value]

SharedObject(heap, kind) ==
    IF \E a \in DOMAIN heap : heap[a].kind = kind
    THEN CHOOSE a \in DOMAIN heap : heap[a].kind = kind
    ELSE Len(heap) + 1

\* engine.ts 189-191, 194: an object or array literal is a new object
FreshObject(heap, kind) == Len(heap) + 1

\* the heap after a literal of this kind and value is evaluated
Allocate(heap, kind, value) ==
    LET ref == FreshObject(heap, kind)
    IN  IF ref > Len(heap) THEN Append(heap, Object(kind, value))
        ELSE [heap EXCEPT ![ref] = Object(kind, value)]

\* the reference the last evaluated literal of this kind got
Allocated(before, after, kind) ==
    IF Len(after) > Len(before) THEN Len(after) ELSE FreshObject(before, kind)

\* the registered playbook (engine.ts 44-46 getPlaybook)
getPlaybook(registry) == registry["pb"]

\* the execution state with its maps and arrays read through their references
Deref(heap, st) ==
    [playbookId |-> st.playbookId,
     currentStepId |-> st.currentStepId,
     stepAttempts |-> heap[st.stepAttempts].value,
     completedSteps |-> heap[st.completedSteps].value,
     failedSteps |-> heap[st.failedSteps].value,
     outcome |-> st.outcome]

InitCases ==
    /\ mcRegistry = <<>>
    /\ mcHeap = <<>>
    /\ mcState = [c \in RunningCases |-> Undef]
    /\ mcCalls = <<>>

\* engine.ts 37-39 registerPlaybook: the playbook object, with or without
\* a variables object, is stored under its id
RegisterPlaybook(pb, hasVariables) ==
    /\ mcRegistry = <<>>
    /\ mcHeap' = IF hasVariables
                 THEN Append(mcHeap, Object("variables", PlaybookVariables))
                 ELSE mcHeap
    /\ mcRegistry' = [id \in {Val(pb.metadata).id} |->
            [playbook |-> pb,
             variables |-> IF hasVariables THEN Some(Len(mcHeap) + 1) ELSE Undef]]
    /\ UNCHANGED <<mcState, mcCalls>>

\* engine.ts 183-197 createExecutionState for a case: stepAttempts,
\* completedSteps and failedSteps are new objects, variables is the
\* playbook's own variables object when it has one
CaseCreatesState(c) ==
    /\ mcRegistry # <<>>
    /\ mcState[c] = Undef
    /\ LET entry == getPlaybook(mcRegistry)
           first == createExecutionState(entry.playbook)
           heap1 == Allocate(mcHeap, "stepAttempts", first.stepAttempts)
           heap2 == Allocate(heap1, "completedSteps", first.completedSteps)
           heap3 == Allocate(heap2, "failedSteps", first.failedSteps)
           heap4 == IF entry.variables # Undef THEN heap3
                    ELSE Allocate(heap3, "variables", <<>>)
       IN  /\ mcHeap' = heap4
           /\ mcState' = [mcState EXCEPT ![c] = Some(
                  [playbookId |-> first.playbookId,
                   currentStepId |-> first.currentStepId,
                   stepAttempts |-> Allocated(mcHeap, heap1, "stepAttempts"),
                   completedSteps |-> Allocated(heap1, heap2, "completedSteps"),
                   failedSteps |-> Allocated(heap2, heap3, "failedSteps"),
                   variables |-> IF entry.variables # Undef THEN Val(entry.variables)
                                 ELSE Allocated(heap3, heap4, "variables"),
                   outcome |-> first.outcome])]
    /\ UNCHANGED <<mcRegistry, mcCalls>>

\* engine.ts 212-291: a case calls executeStep with the registered playbook
\* and its own state object; the writes go through the state's references
CaseExecutesStep(c, stepOutcome) ==
    /\ mcState[c] # Undef
    /\ Cardinality({ i \in DOMAIN mcCalls : mcCalls[i][1] = c }) < MaxCallsPerCase
    /\ LET st == Val(mcState[c])
           r == executeStep(getPlaybook(mcRegistry).playbook, Deref(mcHeap, st),
                            stepOutcome)
       IN  /\ mcHeap' = [a \in DOMAIN mcHeap |->
                  IF a = st.failedSteps
                  THEN Object("failedSteps", r.state.failedSteps)
                  ELSE IF a = st.completedSteps
                  THEN Object("completedSteps", r.state.completedSteps)
                  ELSE IF a = st.stepAttempts
                  THEN Object("stepAttempts", r.state.stepAttempts)
                  ELSE mcHeap[a]]
           /\ mcState' = [mcState EXCEPT ![c] = Some(
                  [st EXCEPT !.currentStepId = r.state.currentStepId,
                             !.outcome = r.state.outcome])]
    /\ mcCalls' = Append(mcCalls, <<c, stepOutcome>>)
    /\ UNCHANGED mcRegistry

NextCases ==
    \/ /\ \E pb \in RegisteredPlaybooks, hasVariables \in BOOLEAN :
                RegisterPlaybook(pb, hasVariables)
       /\ UNCHANGED <<pbVars, escVars, agVars, rdVars, rtVars, emVars, cnVars, dkVars, vsVars, fdVars, ctVars, lqVars>>
    \/ /\ \E c \in RunningCases : CaseCreatesState(c)
       /\ UNCHANGED <<pbVars, escVars, agVars, rdVars, rtVars, emVars, cnVars, dkVars, vsVars, fdVars, ctVars, lqVars>>
    \/ /\ \E c \in RunningCases, stepOutcome \in {"success", "failure"} :
                CaseExecutesStep(c, stepOutcome)
       /\ UNCHANGED <<pbVars, escVars, agVars, rdVars, rtVars, emVars, cnVars, dkVars, vsVars, fdVars, ctVars, lqVars>>

CasesInit ==
    InitCases /\ IdlePlaybook /\ IdleEscalation /\ IdleAgent /\
    IdleRedaction /\ IdleRetrieval /\ IdleEmbeddings /\ IdleChunker /\
    IdleDesk /\ IdleVision /\ IdleFind /\ IdleCitations /\ IdleQueue

SpecCases == CasesInit /\ [][NextCases]_vars

\* the stepOutcomes of the calls a case made, in order
CallsOf(c) ==
    LET own == SelectSeq(mcCalls, LAMBDA call : call[1] = c)
    IN  [i \in 1..Len(own) |-> own[i][2]]

\* the state a fresh execution of pb has after these calls alone
RECURSIVE RunAlone(_, _)
RunAlone(pb, outcomes) ==
    IF outcomes = <<>> THEN createExecutionState(pb)
    ELSE executeStep(pb, RunAlone(pb, SubSeq(outcomes, 1, Len(outcomes) - 1)),
                     outcomes[Len(outcomes)]).state

\* the variables a state of this playbook entry holds
VariablesOf(entry) ==
    IF entry.variables # Undef THEN PlaybookVariables ELSE <<>>

\* C23: however the executeStep calls of two cases interleave, the state of
\* each case is what its own calls alone produce from a fresh state, and no
\* step changes the registry or an object of the playbook
C23_CasesDoNotInterfere ==
    /\ [](\A c \in RunningCases :
            mcState[c] # Undef =>
                /\ Deref(mcHeap, Val(mcState[c]))
                      = RunAlone(getPlaybook(mcRegistry).playbook, CallsOf(c))
                /\ mcHeap[Val(mcState[c]).variables].value
                      = VariablesOf(getPlaybook(mcRegistry)))
    /\ [][mcRegistry # <<>> =>
            /\ mcRegistry' = mcRegistry
            /\ getPlaybook(mcRegistry).variables # Undef =>
                  mcHeap'[Val(getPlaybook(mcRegistry).variables)]
                      = Object("variables", PlaybookVariables)]_vars

\* C23 witness: the two cases made their calls alternately on a playbook
\* with a variables object, and ended in different states
C23_Witness ==
    /\ Len(mcCalls) >= 4
    /\ \A i \in 1..(Len(mcCalls) - 1) : mcCalls[i][1] # mcCalls[i + 1][1]
    /\ getPlaybook(mcRegistry).variables # Undef
    /\ Deref(mcHeap, Val(mcState["case-a"])) # Deref(mcHeap, Val(mcState["case-b"]))
    /\ Deref(mcHeap, Val(mcState["case-a"])).completedSteps # <<>>
    /\ Deref(mcHeap, Val(mcState["case-b"])).failedSteps # <<>>

(***************************************************************************)
(* Playbook lookup                                                         *)
(***************************************************************************)

\* playbooks registered at most
MaxRegistered == 2

Str_router == <<"r", "o", "u", "t", "e", "r">>
Str_modem == <<"m", "o", "d", "e", "m">>
Str_network == <<"n", "e", "t", "w", "o", "r", "k">>
Str_billing == <<"b", "i", "l", "l", "i", "n", "g">>
Str_WiFi == <<"W", "i", "F", "i">>
Str_wifis == <<"m", "y", " ", "w", "i", "f", "i", " ", "i", "s", " ", "d", "o", "w", "n">>
Str_Reset_Password == <<"R", "e", "s", "e", "t", " ", "P", "a", "s", "s", "w", "o", "r", "d">>
Str_reset == <<"R", "E", "S", "E", "T">>
Str_printer == <<"p", "r", "i", "n", "t", "e", "r">>

\* PlaybookTrigger (part_005 20-26): the dimensions findPlaybooks reads,
\* each declared or not
Triggers(products, categories, keywords) ==
    [products |-> products, categories |-> categories, keywords |-> keywords]

\* a registered playbook: its id and its triggers (absent in a playbook
\* whose JSON has no triggers member: validatePlaybook does not look at it)
TriggeredPlaybook(id, triggers) == [id |-> id, triggers |-> triggers]

\* the playbooks that get registered
LookupPlaybooks ==
    { TriggeredPlaybook("wifi-setup",
          Some(Triggers(Some({Str_router}), Undef, Some(<<Str_WiFi>>)))),
      TriggeredPlaybook("password-reset",
          Some(Triggers(Undef, Some({Str_billing, Str_network}),
                        Some(<<Str_Reset_Password>>)))),
      TriggeredPlaybook("general", Some(Triggers(Undef, Undef, Undef))),
      TriggeredPlaybook("no-keywords", Some(Triggers(Undef, Undef, Some(<<>>)))),
      TriggeredPlaybook("untriggered", Undef) }

\* the criteria of the calls
LookupCriteria ==
    [product : {Undef, Some(<<>>), Some(Str_router), Some(Str_modem)},
     category : {Undef, Some(Str_network)},
     keywords : {Undef, Some(<<>>), Some(<<Str_wifis>>), Some(<<Str_printer, Str_reset>>),
                 Some(<<Str_printer>>)}]

\* JavaScript truthiness of an optional string held as characters
TruthyText(o) == o # Undef /\ o # Some(<<>>)

\* engine.ts 82-87: some criterion keyword and some trigger keyword contain
\* one another, lowercased
KeywordsOverlap(criteriaKeywords, triggerKeywords) ==
    \E i \in DOMAIN criteriaKeywords, j \in DOMAIN triggerKeywords :
        \/ Includes(ToLowerCase(triggerKeywords[j]), ToLowerCase(criteriaKeywords[i]))
        \/ Includes(ToLowerCase(criteriaKeywords[i]), ToLowerCase(triggerKeywords[j]))

\* engine.ts 64-91: a property of playbook.triggers is read (this throws a
\* TypeError when triggers is undefined) exactly when the criterion before
\* the && is truthy and no earlier check has returned
ReadsTriggers(criteria) ==
    TruthyText(criteria.product) \/ TruthyText(criteria.category)
        \/ criteria.keywords # Undef

\* engine.ts 63-94: the filter callback on a playbook that has triggers
Matches(triggers, criteria) ==
    /\ (TruthyText(criteria.product) /\ triggers.products # Undef)
            => Val(criteria.product) \in Val(triggers.products)
    /\ (TruthyText(criteria.category) /\ triggers.categories # Undef)
            => Val(criteria.category) \in Val(triggers.categories)
    /\ (criteria.keywords # Undef /\ triggers.keywords # Undef)
            => KeywordsOverlap(Val(criteria.keywords), Val(triggers.keywords))

\* engine.ts 58-95 findPlaybooks: the ids of the matching playbooks in
\* registry order, or the TypeError of the first playbook without triggers
\* whose triggers are read
findPlaybooks(registry, criteria) ==
    IF \E i \in DOMAIN registry :
            registry[i].triggers = Undef /\ ReadsTriggers(criteria)
    THEN [threw |-> TRUE, found |-> <<>>]
    ELSE [threw |-> FALSE,
          found |-> LET kept == SelectSeq(registry, LAMBDA pb :
                                    pb.triggers = Undef
                                        \/ Matches(Val(pb.triggers), criteria))
                    IN  [i \in DOMAIN kept |-> kept[i].id]]

InitFind ==
    /\ fdRegistry = <<>>
    /\ fdCriteria = Undef
    /\ fdPhase = "idle"
    /\ fdFound = <<>>

\* engine.ts 37-39 registerPlaybook: Map.set adds the playbook under its id
FdRegister(pb) ==
    /\ fdPhase = "idle"
    /\ Len(fdRegistry) < MaxRegistered
    /\ \A i \in DOMAIN fdRegistry : fdRegistry[i].id # pb.id
    /\ fdRegistry' = Append(fdRegistry, pb)
    /\ UNCHANGED <<fdCriteria, fdPhase, fdFound>>

\* engine.ts 58-95: a findPlaybooks call returns
FdFind(criteria) ==
    /\ fdPhase = "idle"
    /\ ~findPlaybooks(fdRegistry, criteria).threw
    /\ fdCriteria' = Some(criteria)
    /\ fdFound' = findPlaybooks(fdRegistry, criteria).found
    /\ fdPhase' = "returned"
    /\ UNCHANGED fdRegistry

\* engine.ts 67, 74, 81: a findPlaybooks call throws on reading a property
\* of undefined triggers
FdFindThrows(criteria) ==
    /\ fdPhase = "idle"
    /\ findPlaybooks(fdRegistry, criteria).threw
    /\ fdCriteria' = Some(criteria)
    /\ fdPhase' = "threw"
    /\ UNCHANGED <<fdRegistry, fdFound>>

NextFind ==
    \/ /\ \E pb \in LookupPlaybooks : FdRegister(pb)
       /\ UNCHANGED <<pbVars, escVars, agVars, rdVars, rtVars, emVars, cnVars, dkVars, vsVars, mcVars, ctVars, lqVars>>
    \/ /\ \E criteria \in LookupCriteria : FdFind(criteria)
       /\ UNCHANGED <<pbVars, escVars, agVars, rdVars, rtVars, emVars, cnVars, dkVars, vsVars, mcVars, ctVars, lqVars>>
    \/ /\ \E criteria \in LookupCriteria : FdFindThrows(criteria)
       /\ UNCHANGED <<pbVars, escVars, agVars, rdVars, rtVars, emVars, cnVars, dkVars, vsVars, mcVars, ctVars, lqVars>>

FindInit ==
    InitFind /\ IdlePlaybook /\ IdleEscalation /\ IdleAgent /\
    IdleRedaction /\ IdleRetrieval /\ IdleEmbeddings /\ IdleChunker /\
    IdleDesk /\ IdleVision /\ IdleCases /\ IdleCitations /\ IdleQueue

SpecFind == FindInit /\ [][NextFind]_vars

\* what the playbook declares for a dimension; a playbook without triggers
\* declares nothing
Declared(pb, dimension) ==
    IF pb.triggers = Undef THEN Undef ELSE Val(pb.triggers)[dimension]

\* a playbook passes every supplied criterion: an undeclared dimension
\* passes, product and category pass by membership in the declared list,
\* keywords by one criterion keyword and one trigger keyword containing one
\* another case-insensitively (a criterion is supplied when it is given and,
\* for product and category, not empty)
PassesCriteria(pb, criteria) ==
    /\ (TruthyText(criteria.product) /\ Declared(pb, "products") # Undef)
            => Val(criteria.product) \in Val(Declared(pb, "products"))
    /\ (TruthyText(criteria.category) /\ Declared(pb, "categories") # Undef)
            => Val(criteria.category) \in Val(Declared(pb, "categories"))
    /\ (criteria.keywords # Undef /\ Declared(pb, "keywords") # Undef)
            => \E i \in DOMAIN Val(criteria.keywords),
                  j \in DOMAIN Val(Declared(pb, "keywords")) :
                    LET kw == ToLowerCase(Val(criteria.keywords)[i])
                        tk == ToLowerCase(Val(Declared(pb, "keywords"))[j])
                    IN  Includes(tk, kw) \/ Includes(kw, tk)

\* C24: a findPlaybooks call raises no error, and returns exactly the
\* registered playbooks that pass every supplied criterion
C24_FindReturnsExactlyMatching ==
    /\ fdPhase # "threw"
    /\ fdPhase = "returned" =>
          { fdFound[i] : i \in DOMAIN fdFound }
              = { fdRegistry[i].id : i \in { j \in DOMAIN fdRegistry :
                      PassesCriteria(fdRegistry[j], Val(fdCriteria)) } }

(***************************************************************************)
(* Context with source citations                                           *)
(***************************************************************************)

\* chunks given to one call at most
MaxChunks == 3

\* RetrievalResult with its metadata (retrieval.ts 63-72)
CitedChunk(content, score, kbId, docId, product) ==
    [content |-> content, score |-> score,
     metadata |-> [kbId |-> kbId, docId |-> docId, product |-> product]]

\* the chunks the calls draw from: two chunks of one document, a second
\* document of the same knowledge base, and a document of another one
\* with the same document id
ChunkPool ==
    { CitedChunk(Content_restart, 90, "kb-1", "doc-1", "router"),
      CitedChunk(Content_unplug, 80, "kb-1", "doc-2", "router"),
      CitedChunk(Content_restart, 75, "kb-1", "doc-1", "router"),
      CitedChunk(Content_unplug, 72, "kb-2", "doc-1", "modem") }

ChunkLists == UNION { [1..n -> ChunkPool] : n \in 0..MaxChunks }

CitationBudgets == {2, 7, DefaultMaxTokens}

DigitOf(d) == <<"0", "1", "2", "3", "4", "5", "6", "7", "8", "9">>[d + 1]

\* the decimal digits of a number, as a template literal formats it
RECURSIVE DecimalString(_)
DecimalString(n) ==
    IF n < 10 THEN <<DigitOf(n)>>
    ELSE DecimalString(n \div 10) \o <<DigitOf(n % 10)>>

\* `\n[Source ${n}]\n`
SourceLabel(n) ==
    <<"\n", "[", "S", "o", "u", "r", "c", "e", " ">> \o DecimalString(n) \o <<"]", "\n">>

\* retrieval.ts 140: the key of a chunk's source, `${kbId}:${docId}`
SourceKey(chunk) == <<chunk.metadata.kbId, ":", chunk.metadata.docId>>

\* retrieval.ts 143-147: the source entry of a chunk
SourceOf(chunk) ==
    [kbId |-> chunk.metadata.kbId, docId |-> chunk.metadata.docId,
     product |-> chunk.metadata.product]

RECURSIVE CiteFrom(_, _, _, _, _, _, _)
\* retrieval.ts 131-152: the loop over the sorted chunks from chunk i on
CiteFrom(sortedChunks, i, context, totalTokens, sources, seenSources, maxTokens) ==
    IF i > Len(sortedChunks) THEN [context |-> context, sources |-> sources]
    ELSE LET chunk == sortedChunks[i]
             chunkTokens == estimateTokens(chunk.content)
             sourceKey == SourceKey(chunk)
             pushed == IF sourceKey \notin seenSources
                       THEN Append(sources, SourceOf(chunk)) ELSE sources
         IN  IF totalTokens + chunkTokens > maxTokens
             THEN [context |-> context, sources |-> sources]
             ELSE CiteFrom(sortedChunks, i + 1,
                           context \o SourceLabel(Len(pushed)) \o chunk.content,
                           totalTokens + chunkTokens, pushed,
                           seenSources \cup {sourceKey}, maxTokens)

\* retrieval.ts 115-158
assembleContextWithSources(chunks, maxTokens) ==
    IF Len(chunks) = 0 THEN [context |-> <<>>, sources |-> <<>>]
    ELSE LET built == CiteFrom(SortByScore(chunks), 1, <<>>, 0, <<>>, {}, maxTokens)
         IN  [context |-> Trim(built.context), sources |-> built.sources]

InitCitations ==
    /\ ctChunks \in ChunkLists
    /\ ctMaxTokens \in CitationBudgets
    /\ ctPhase = "call"
    /\ ctContext = <<>>
    /\ ctSources = <<>>

\* retrieval.ts 115-158: the call returns
AssembleContextWithSources ==
    /\ ctPhase = "call"
    /\ LET r == assembleContextWithSources(ctChunks, ctMaxTokens)
       IN  /\ ctContext' = r.context
           /\ ctSources' = r.sources
    /\ ctPhase' = "returned"
    /\ UNCHANGED <<ctChunks, ctMaxTokens>>

NextCitations ==
    AssembleContextWithSources
        /\ UNCHANGED <<pbVars, escVars, agVars, rdVars, rtVars, emVars, cnVars, dkVars, vsVars, mcVars, fdVars, lqVars>>

CitationsInit ==
    InitCitations /\ IdlePlaybook /\ IdleEscalation /\ IdleAgent /\
    IdleRedaction /\ IdleRetrieval /\ IdleEmbeddings /\ IdleChunker /\
    IdleDesk /\ IdleVision /\ IdleCases /\ IdleFind /\ IdleQueue

SpecCitations == CitationsInit /\ [][NextCitations]_vars

\* the chunks the call includes: the chunks by descending score, up to the
\* first one that does not fit the budget
IncludedChunks ==
    LET sorted == SortByScore(ctChunks)
        Tokens(k) == IF k = 0 THEN 0
                     ELSE LET S[j \in 1..k] ==
                                  estimateTokens(sorted[j].content)
                                  + (IF j = 1 THEN 0 ELSE S[j - 1])
                          IN  S[k]
        fits == { k \in 0..Len(sorted) : Tokens(k) <= ctMaxTokens }
    IN  SubSeq(sorted, 1, CHOOSE k \in fits : (k + 1) \notin fits)

\* the (kbId, docId) pair of a chunk or of a source
PairOf(metadata) == <<metadata.kbId, metadata.docId>>

\* the 1-based position of a chunk's own source in the returned list
OwnSourcePosition(chunk) ==
    CHOOSE n \in DOMAIN ctSources : PairOf(ctSources[n]) = PairOf(chunk.metadata)

\* the context in which every chunk is labelled with its own source
RECURSIVE ContextLabelledByOwnSource(_)
ContextLabelledByOwnSource(chunks) ==
    IF chunks = <<>> THEN <<>>
    ELSE ContextLabelledByOwnSource(SubSeq(chunks, 1, Len(chunks) - 1))
            \o SourceLabel(OwnSourcePosition(chunks[Len(chunks)]))
            \o chunks[Len(chunks)].content

\* C25: the sources list holds each (kbId, docId) pair at most once, in the
\* order the included chunks first refer to them, and the '[Source n]' label
\* of every chunk in the context gives the position of the chunk's own source
C25_SourcesNumberedAsReferenced ==
    ctPhase = "returned" =>
        LET included == IncludedChunks
            FirstReference(i) ==
                \A j \in 1..(i - 1) :
                    PairOf(included[j].metadata) # PairOf(included[i].metadata)
            firsts == SelectSeq([i \in DOMAIN included |->
                                    <<FirstReference(i), PairOf(included[i].metadata)>>],
                                LAMBDA e : e[1])
        IN  /\ \A m, n \in DOMAIN ctSources :
                  PairOf(ctSources[m]) = PairOf(ctSources[n]) => m = n
            /\ [n \in DOMAIN ctSources |-> PairOf(ctSources[n])]
                  = [n \in DOMAIN firsts |-> firsts[n][2]]
            /\ ctContext = Trim(ContextLabelledByOwnSource(included))

(***************************************************************************)
(* Escalation level of the tier-1 response                                 *)
(***************************************************************************)
\* C27: every response of processL1Request with shouldEscalate = true has
\* escalationLevel L2 or L3, whether the escalation comes from a tool call
\* or from a trigger match that is not critical
C27_EscalationHasLevel ==
    (agTier = "L1" /\ agResponse # Undef /\ Val(agResponse).shouldEscalate)
        => Val(agResponse).escalationLevel \in {Some("L2"), Some("L3")}

(***************************************************************************)
(* L3 queue                                                                *)
(***************************************************************************)

\* queue items added at most
MaxQueueItems == 2

\* the L3 agents of the tenant
L3AgentIds == {"agent-1", "agent-2"}

\* queue.ts 17-34: the fields of a queue item the handlers write
QueueItem(status, assignedAgentId) ==
    [status |-> status, assignedAgentId |-> assignedAgentId]

\* queue.ts 4-15: the fields of an agent the handlers write
L3Agent(currentCaseCount, status) ==
    [currentCaseCount |-> currentCaseCount, status |-> status]

\* a request and the position of its handler
LqRequest(handler, pc, queueItemId, agentId, status, readCount, reply) ==
    [handler |-> handler, pc |-> pc, queueItemId |-> queueItemId,
     agentId |-> agentId, status |-> status, readCount |-> readCount,
     reply |-> reply]

LqNoRequest == LqRequest("none", "idle", 0, "", "", 0, Undef)

\* the handler of slot r returns the response with this status code, and
\* its locals are gone
LqFinish(r, code) ==
    [lqReq EXCEPT ![r] = LqRequest(@.handler, "done", 0, "", "", 0, Some(code))]

InitQueue ==
    /\ lqItems = <<>>
    /\ lqAgents = [a \in L3AgentIds |-> L3Agent(0, "available")]
    /\ lqResolvedCases = {}
    /\ lqReq = [r \in Slots |-> LqNoRequest]

\* queue.ts 42-60 addToL3Queue: an escalation adds a queued item
AddToL3Queue ==
    /\ Len(lqItems) < MaxQueueItems
    /\ lqItems' = Append(lqItems, QueueItem("queued", Undef))
    /\ UNCHANGED <<lqAgents, lqResolvedCases, lqReq>>

\* l3/queue/route.ts 48-67, ai/l1/route.ts 91-117: a request with its
\* required fields arrives
LqReceive(r, handler, queueItemId, agentId, status) ==
    /\ lqReq[r].pc = "idle"
    /\ lqReq' = [lqReq EXCEPT ![r] =
            LqRequest(handler, "start", queueItemId, agentId, status, 0, Undef)]
    /\ UNCHANGED <<lqItems, lqAgents, lqResolvedCases>>

\* queue.ts 109-135 assignToAgent: one batch marks the item assigned to the
\* agent and increments the agent's count; the batch fails when the item
\* does not exist
LqAssign(r) ==
    /\ lqReq[r].handler = "assign" /\ lqReq[r].pc = "start"
    /\ IF lqReq[r].queueItemId \in DOMAIN lqItems
       THEN /\ lqItems' = [lqItems EXCEPT ![lqReq[r].queueItemId] =
                              QueueItem("assigned", Some(lqReq[r].agentId))]
            /\ lqAgents' = [lqAgents EXCEPT ![lqReq[r].agentId] =
                              L3Agent(@.currentCaseCount + 1, "busy")]
            /\ lqReq' = LqFinish(r, 200)
       ELSE /\ lqReq' = LqFinish(r, 500)
            /\ UNCHANGED <<lqItems, lqAgents>>
    /\ UNCHANGED lqResolvedCases

\* queue.ts 140-146 updateQueueItemStatus (l3/queue/route.ts 71-79)
LqUpdateStatus(r) ==
    /\ lqReq[r].handler = "updateStatus" /\ lqReq[r].pc = "start"
    /\ IF lqReq[r].queueItemId \in DOMAIN lqItems
       THEN /\ lqItems' = [lqItems EXCEPT ![lqReq[r].queueItemId].status =
                              lqReq[r].status]
            /\ lqReq' = LqFinish(r, 200)
       ELSE /\ lqReq' = LqFinish(r, 500)
            /\ UNCHANGED lqItems
    /\ UNCHANGED <<lqAgents, lqResolvedCases>>

\* queue.ts 222-234 resolveL3Case: the agent's document is read
LqResolveRead(r) ==
    /\ lqReq[r].handler = "resolve" /\ lqReq[r].pc = "start"
    /\ lqReq' = [lqReq EXCEPT ![r].pc = "commit",
                   ![r].readCount = lqAgents[lqReq[r].agentId].currentCaseCount]
    /\ UNCHANGED <<lqItems, lqAgents, lqResolvedCases>>

\* queue.ts 238: Math.max(0, (currentCaseCount || 1) - 1)
NewCount(currentCaseCount) ==
    LET count == IF currentCaseCount = 0 THEN 1 ELSE currentCaseCount
    IN  IF count - 1 > 0 THEN count - 1 ELSE 0

\* queue.ts 229-245: one batch marks the item resolved and writes the
\* agent's count computed from what was read
LqResolveCommit(r) ==
    /\ lqReq[r].handler = "resolve" /\ lqReq[r].pc = "commit"
    /\ IF lqReq[r].queueItemId \in DOMAIN lqItems
       THEN /\ lqItems' = [lqItems EXCEPT ![lqReq[r].queueItemId].status = "resolved"]
            /\ lqAgents' = [lqAgents EXCEPT ![lqReq[r].agentId] =
                    L3Agent(NewCount(lqReq[r].readCount),
                            IF NewCount(lqReq[r].readCount) = 0 THEN "available"
                            ELSE "busy")]
            /\ lqReq' = [lqReq EXCEPT ![r].pc = "case"]
       ELSE /\ lqReq' = LqFinish(r, 500)
            /\ UNCHANGED <<lqItems, lqAgents>>
    /\ UNCHANGED lqResolvedCases

\* ai/l1/route.ts 122-145: the case is marked resolved and the resolution
\* is added to its timeline
LqResolveCase(r) ==
    /\ lqReq[r].handler = "resolve" /\ lqReq[r].pc = "case"
    /\ lqResolvedCases' = lqResolvedCases \cup {lqReq[r].queueItemId}
    /\ lqReq' = LqFinish(r, 200)
    /\ UNCHANGED <<lqItems, lqAgents>>

\* l3/queue/route.ts 87-93, ai/l1/route.ts 146-152: a store call throws and
\* the route answers 500
LqThrows(r) ==
    /\ lqReq[r].pc \in {"start", "commit", "case"}
    /\ lqReq' = LqFinish(r, 500)
    /\ UNCHANGED <<lqItems, lqAgents, lqResolvedCases>>

NextQueue ==
    \/ /\ AddToL3Queue
       /\ UNCHANGED <<pbVars, escVars, agVars, rdVars, rtVars, emVars, cnVars, dkVars, vsVars, mcVars, fdVars, ctVars>>
    \/ /\ \E r \in Slots, handler \in {"assign", "updateStatus", "resolve"},
             queueItemId \in 1..MaxQueueItems, agentId \in L3AgentIds,
             status \in {"in_progress", "resolved"} :
                /\ handler # "updateStatus" => status = "resolved"
                /\ handler = "updateStatus" => agentId = "agent-1"
                /\ LqReceive(r, handler, queueItemId,
                             IF handler = "updateStatus" THEN "" ELSE agentId,
                             IF handler = "updateStatus" THEN status ELSE "")
       /\ UNCHANGED <<pbVars, escVars, agVars, rdVars, rtVars, emVars, cnVars, dkVars, vsVars, mcVars, fdVars, ctVars>>
    \/ /\ \E r \in Slots : LqAssign(r)
       /\ UNCHANGED <<pbVars, escVars, agVars, rdVars, rtVars, emVars, cnVars, dkVars, vsVars, mcVars, fdVars, ctVars>>
    \/ /\ \E r \in Slots : LqUpdateStatus(r)
       /\ UNCHANGED <<pbVars, escVars, agVars, rdVars, rtVars, emVars, cnVars, dkVars, vsVars, mcVars, fdVars, ctVars>>
    \/ /\ \E r \in Slots : LqResolveRead(r)
       /\ UNCHANGED <<pbVars, escVars, agVars, rdVars, rtVars, emVars, cnVars, dkVars, vsVars, mcVars, fdVars, ctVars>>
    \/ /\ \E r \in Slots : LqResolveCommit(r)
       /\ UNCHANGED <<pbVars, escVars, agVars, rdVars, rtVars, emVars, cnVars, dkVars, vsVars, mcVars, fdVars, ctVars>>
    \/ /\ \E r \in Slots : LqResolveCase(r)
       /\ UNCHANGED <<pbVars, escVars, agVars, rdVars, rtVars, emVars, cnVars, dkVars, vsVars, mcVars, fdVars, ctVars>>
    \/ /\ \E r \in Slots : LqThrows(r)
       /\ UNCHANGED <<pbVars, escVars, agVars, rdVars, rtVars, emVars, cnVars, dkVars, vsVars, mcVars, fdVars, ctVars>>

QueueInit ==
    InitQueue /\ IdlePlaybook /\ IdleEscalation /\ IdleAgent /\
    IdleRedaction /\ IdleRetrieval /\ IdleEmbeddings /\ IdleChunker /\
    IdleDesk /\ IdleVision /\ IdleCases /\ IdleFind /\ IdleCitations

SpecQueue == QueueInit /\ [][NextQueue]_vars

\* the queue items assigned to an agent and not resolved
OpenItemsOf(agentId) ==
    { id \in DOMAIN lqItems :
        /\ lqItems[id].assignedAgentId = Some(agentId)
        /\ lqItems[id].status # "resolved" }

\* C29: the currentCaseCount of every L3 agent is the number of queue items
\* assigned to the agent and not resolved, however assign and resolve
\* requests interleave
C29_CountMatchesOpenItems ==
    \A agentId \in L3AgentIds :
        lqAgents[agentId].currentCaseCount = Cardinality(OpenItemsOf(agentId))

====
